---------------------------- MODULE Spec2Model ----------------------------
(***************************************************************************)
(* A model of the Taguchi-LLM-Predicting analysis scripts: the DataFrame   *)
(* cleaning helpers of src/data_processing.py, the LLM client of           *)
(* scripts/llm_client.py, the outlier thresholding of                      *)
(* scripts/detect_remove_outliers_mould_5001.py, the batch stage scripts,  *)
(* the Taguchi runner, the NDJSON retrofit of                              *)
(* scripts/retrofit_ndjson_format.py, the k selection of src/clustering.py,*)
(* the timestamp step of scripts/clean_mould_5001.py and the prompt        *)
(* generator of scripts/llm_prompts_taguchi.py.                            *)
(*                                                                         *)
(* Text is modelled as a sequence of one-character strings, so that        *)
(* str(), strip() and number parsing are computed and not assumed.  A      *)
(* DataFrame is a record of its column labels, its index labels and its    *)
(* rows; a cell is a record                                                *)
(*     [t |-> "str" | "num" | "none" | "nan", n, k, s]                     *)
(* where a number is n / 10^k and a string is the character sequence s.    *)
(***************************************************************************)
EXTENDS Integers, Sequences, FiniteSets, TLC

VARIABLES
    df,         \* the caller's DataFrame object (data_processing helpers)
    call,       \* the helper invoked last and its arguments
    out,        \* what the helper returned (or the exception it raised)
    raw,        \* the provider response handed to parse_gemini_response
    parsed,     \* what parse_gemini_response returned (or raised)
    clusters,       \* detect_remove_outliers: the clusters of each cluster label
    details,    \* detect_remove_outliers: per-cluster size, method, count
    outlier_mask, \* detect_remove_outliers: the rows marked as outliers
    llm_env,    \* call_llm: environment variables and credential files
    llm_call,   \* call_llm: the arguments of the call
    llm_out,    \* call_llm: what the call returned or raised
    effects,    \* call_llm: what the call did, in order
    fs,         \* stage scripts: the files of outputs/
    stage_run,  \* stage scripts: the last run, how it ended, what it wrote
    taguchi,    \* Taguchi runner: environment, llm_client, samples to do
    ndjson,     \* Taguchi runner: the rows written to run_<trial>.ndjson
    run_file,   \* retrofit: the lines of the NDJSON file
    patched_file, \* retrofit: the <orig>.patched file
    retrofit,   \* retrofit: where process_file is, and its changed flag
    results,    \* best_k_by_silhouette: the items of the results dict, in order
    best_k,     \* best_k_by_silhouette: what it returned
    pg,         \* generate_prompt: the factor levels and the samples to do
    prompt_objs \* generate_prompt: each sample done and what was returned

dataVars == <<df, call, out>>
parseVars == <<raw, parsed>>
outlierVars == <<clusters, details, outlier_mask>>
llmVars == <<llm_env, llm_call, llm_out, effects>>
pipeVars == <<fs, stage_run>>
runnerVars == <<taguchi, ndjson>>
retroVars == <<run_file, patched_file, retrofit>>
clusteringVars == <<results, best_k>>
promptVars == <<pg, prompt_objs>>
vars == <<df, call, out, raw, parsed, clusters, details, outlier_mask,
          llm_env, llm_call, llm_out, effects, fs, stage_run, taguchi, ndjson,
          run_file, patched_file, retrofit, results, best_k, pg, prompt_objs>>

---------------------------------------------------------------------------
(* Text helpers *)

Digit == {"0", "1", "2", "3", "4", "5", "6", "7", "8", "9"}

DigitVal(c) ==
    CASE c = "0" -> 0 [] c = "1" -> 1 [] c = "2" -> 2 [] c = "3" -> 3
      [] c = "4" -> 4 [] c = "5" -> 5 [] c = "6" -> 6 [] c = "7" -> 7
      [] c = "8" -> 8 [] c = "9" -> 9

DigitChar(d) ==
    CASE d = 0 -> "0" [] d = 1 -> "1" [] d = 2 -> "2" [] d = 3 -> "3"
      [] d = 4 -> "4" [] d = 5 -> "5" [] d = 6 -> "6" [] d = 7 -> "7"
      [] d = 8 -> "8" [] d = 9 -> "9"

RECURSIVE Digits(_)
\* str(n) of a non-negative int
Digits(n) ==
    IF n < 10 THEN <<DigitChar(n)>>
    ELSE Digits(n \div 10) \o <<DigitChar(n % 10)>>

RECURSIVE NatOf(_)
NatOf(s) ==
    IF s = <<>> THEN 0
    ELSE NatOf(SubSeq(s, 1, Len(s) - 1)) * 10 + DigitVal(s[Len(s)])

RECURSIVE Pow10(_)
Pow10(k) == IF k = 0 THEN 1 ELSE 10 * Pow10(k - 1)

AllDigits(s) == \A i \in 1..Len(s) : s[i] \in Digit

RECURSIVE LStrip(_)
LStrip(s) == IF s # <<>> /\ s[1] = " " THEN LStrip(Tail(s)) ELSE s

RECURSIVE RStrip(_)
RStrip(s) ==
    IF s # <<>> /\ s[Len(s)] = " " THEN RStrip(SubSeq(s, 1, Len(s) - 1)) ELSE s

\* str.strip()
Strip(s) == RStrip(LStrip(s))

RECURSIVE Concat(_)
\* the texts of ps one after the other
Concat(ps) == IF ps = <<>> THEN <<>> ELSE Head(ps) \o Concat(Tail(ps))

---------------------------------------------------------------------------
(* Cells *)

StrCell(s) == [t |-> "str", n |-> 0, k |-> 0, s |-> s]
NumCell(n) == [t |-> "num", n |-> n, k |-> 0, s |-> <<>>]
DecCell(n, k) == [t |-> "num", n |-> n, k |-> k, s |-> <<>>]
NoneCell == [t |-> "none", n |-> 0, k |-> 0, s |-> <<>>]
NaNCell == [t |-> "nan", n |-> 0, k |-> 0, s |-> <<>>]

IsMissing(c) == c.t \in {"none", "nan"}

\* str(x) of a cell: an int prints its digits, None prints "None", NaN "nan"
Str(c) ==
    CASE c.t = "str" -> c.s
      [] c.t = "num" -> IF c.k = 0 THEN Digits(c.n)
                        ELSE Digits(c.n \div Pow10(c.k)) \o <<".">>
                             \o Digits(c.n % Pow10(c.k))
      [] c.t = "none" -> <<"N", "o", "n", "e">>
      [] c.t = "nan" -> <<"n", "a", "n">>

NoParse == [ok |-> FALSE, nan |-> FALSE, n |-> 0, k |-> 0]

\* float(s) / pandas' parse of one string: surrounding blanks are skipped,
\* digits with at most one decimal point are a number, "nan" is NaN, and
\* anything else does not parse.
ParseFloat(s0) ==
    LET s == Strip(s0)
        dots == {i \in 1..Len(s) : s[i] = "."}
    IN  IF s = <<"n", "a", "n">> THEN [ok |-> TRUE, nan |-> TRUE, n |-> 0, k |-> 0]
        ELSE IF s = <<>> THEN NoParse
        ELSE IF dots = {} THEN
            IF AllDigits(s) THEN [ok |-> TRUE, nan |-> FALSE, n |-> NatOf(s), k |-> 0]
            ELSE NoParse
        ELSE IF Cardinality(dots) = 1 THEN
            LET d == CHOOSE i \in dots : TRUE
                ip == SubSeq(s, 1, d - 1)
                fp == SubSeq(s, d + 1, Len(s))
            IN  IF AllDigits(ip) /\ AllDigits(fp) /\ Len(ip) + Len(fp) > 0
                THEN [ok |-> TRUE, nan |-> FALSE, n |-> NatOf(ip \o fp), k |-> Len(fp)]
                ELSE NoParse
        ELSE NoParse

\* pd.to_numeric(x, errors="coerce") of one cell; NaN when it does not parse
ToNumeric(c) ==
    CASE c.t = "num" -> [ok |-> TRUE, nan |-> FALSE, n |-> c.n, k |-> c.k]
      [] c.t = "str" -> LET p == ParseFloat(c.s)
                        IN  IF p.ok THEN p ELSE [p EXCEPT !.ok = TRUE, !.nan = TRUE]
      [] OTHER -> [ok |-> TRUE, nan |-> TRUE, n |-> 0, k |-> 0]

\* a == b on floats: NaN equals nothing
NumEq(a, b) ==
    /\ ~a.nan
    /\ ~b.nan
    /\ a.n * Pow10(b.k) = b.n * Pow10(a.k)

---------------------------------------------------------------------------
(* DataFrames *)

Frame(columns, index, data) == [columns |-> columns, index |-> index, data |-> data]

NoFrame == Frame(<<>>, <<>>, <<>>)

Range0(n) == [i \in 1..n |-> i - 1]

ColumnPos(d, column) == {j \in 1..Len(d.columns) : d.columns[j] = column}

RECURSIVE SelectIdx(_, _, _)
\* the positions 1..n whose mask is set, in increasing order
SelectIdx(mask, i, n) ==
    IF i > n THEN <<>>
    ELSE (IF mask[i] THEN <<i>> ELSE <<>>) \o SelectIdx(mask, i + 1, n)

\* df[mask]: the selected rows, with the index labels they had
BoolIndex(d, mask) ==
    LET sel == SelectIdx(mask, 1, Len(d.data))
    IN  Frame(d.columns,
              [p \in 1..Len(sel) |-> d.index[sel[p]]],
              [p \in 1..Len(sel) |-> d.data[sel[p]]])

Returned(frame) == [raised |-> "none", frame |-> frame]
Raised(exc) == [raised |-> exc, frame |-> NoFrame]
NotCalled == [raised |-> "not_called", frame |-> NoFrame]

\* no function of data_processing has been called
Idle == [fn |-> "none"]

DataIdle ==
    /\ df = NoFrame
    /\ call = Idle
    /\ out = NotCalled

filter_mask_nostrip(d, j, value) ==
    LET val_s == Str(value)
        target == ParseFloat(val_s)
    IN  [i \in 1..Len(d.data) |->
            \/ Str(d.data[i][j]) = val_s
            \/ (target.ok /\ NumEq(ToNumeric(d.data[i][j]), target))]

\* the row mask of filter_by_value: string match OR numeric match
filter_mask(d, j, value) ==
    LET val_s == Strip(Str(value))
        target == ParseFloat(val_s)
    IN  [i \in 1..Len(d.data) |->
            \/ Strip(Str(d.data[i][j])) = val_s
            \/ (target.ok /\ NumEq(ToNumeric(d.data[i][j]), target))]

filter_by_value(d, column, value) ==
    IF ColumnPos(d, column) = {} THEN Raised("KeyError")
    ELSE LET j == CHOOSE p \in ColumnPos(d, column) : TRUE
         IN  Returned(BoolIndex(d, filter_mask(d, j, value)))

---------------------------------------------------------------------------
(* Python values of a provider response, and the text of a model answer *)

PyNone == [t |-> "none"]
PyInt(n) == [t |-> "int", v |-> n]
PyStr(s) == [t |-> "str", v |-> s]
PyList(xs) == [t |-> "list", v |-> xs]
\* a dict is a function from its keys to its values
PyDict(f) == [t |-> "dict", v |-> f]

\* bool(x)
Truthy(x) ==
    CASE x.t = "none" -> FALSE
      [] x.t = "int" -> x.v # 0
      [] x.t = "str" -> x.v # <<>>
      [] x.t = "list" -> x.v # <<>>
      [] x.t = "dict" -> DOMAIN x.v # {}

\* a or b
Or(a, b) == IF Truthy(a) THEN a ELSE b

Exc == [t |-> "exception"]

\* r.get(k, default), r being the key-value function of a dict
Get(r, k, default) == IF k \in DOMAIN r THEN r[k] ELSE default

\* x.get(k): only a dict has .get (AttributeError otherwise)
DictGet(x, k) ==
    IF x.t = "exception" THEN Exc
    ELSE IF x.t # "dict" THEN Exc
    ELSE IF k \in DOMAIN x.v THEN x.v[k] ELSE PyNone

\* x[0] of a truthy x: a list or a str has a first element; a dict has no
\* key 0 (KeyError) and an int is not subscriptable (TypeError)
Item0(x) ==
    IF x.t = "exception" THEN Exc
    ELSE IF x.t = "list" THEN x.v[1]
    ELSE IF x.t = "str" THEN PyStr(<<x.v[1]>>)
    ELSE Exc

OrDefault(x, default) == IF x.t = "exception" THEN Exc ELSE Or(x, default)

\* the backquote character (it cannot be written inside a TLA+ string)
BQ == "bq"
Fence == <<BQ, BQ, BQ>>
JsonWord == <<"j", "s", "o", "n">>

StartsWith(s, p, w) == p + Len(w) - 1 <= Len(s) /\ SubSeq(s, p, p + Len(w) - 1) = w

RECURSIVE SkipWs(_, _)
\* the first position at or after p that holds no blank
SkipWs(s, p) == IF p <= Len(s) /\ s[p] = " " THEN SkipWs(s, p + 1) ELSE p

\* \s*(\{.*?\})\s* and the closing fence matched at p: the group's
\* bounds, or none
FencedBody(s, p) ==
    LET q == SkipWs(s, p)
        ends == {e \in (q + 1)..Len(s) :
                    s[e] = "}" /\ StartsWith(s, SkipWs(s, e + 1), Fence)}
    IN  IF q <= Len(s) /\ s[q] = "{" /\ ends # {}
        THEN [ok |-> TRUE, from |-> q, to |-> CHOOSE e \in ends : \A f \in ends : e <= f]
        ELSE [ok |-> FALSE, from |-> 0, to |-> 0]

\* fence, (?:json)?, \s*(\{.*?\})\s*, fence matched at position i
FencedAt(s, i) ==
    IF ~StartsWith(s, i, Fence) THEN [ok |-> FALSE, from |-> 0, to |-> 0]
    ELSE IF StartsWith(s, i + 3, JsonWord) /\ FencedBody(s, i + 7).ok
         THEN FencedBody(s, i + 7)
         ELSE FencedBody(s, i + 3)

\* re.search of the fenced-JSON pattern with re.DOTALL: group 1 of the
\* leftmost match, or none
fenced_search(s) ==
    LET starts == {i \in 1..Len(s) : FencedAt(s, i).ok}
    IN  IF starts = {} THEN [ok |-> FALSE, str |-> <<>>]
        ELSE LET i == CHOOSE a \in starts : \A b \in starts : a <= b
                 m == FencedAt(s, i)
             IN  [ok |-> TRUE, str |-> SubSeq(s, m.from, m.to)]

RECURSIVE brace_scan(_, _, _)
\* the loop "for i in range(start, len(text))": the index where depth
\* returns to 0, or 0 when it never does
brace_scan(s, i, depth) ==
    IF i > Len(s) THEN 0
    ELSE IF s[i] = "{" THEN brace_scan(s, i + 1, depth + 1)
    ELSE IF s[i] = "}" THEN
        IF depth - 1 = 0 THEN i ELSE brace_scan(s, i + 1, depth - 1)
    ELSE brace_scan(s, i + 1, depth)

\* the fallback: text[start:end+1] from the first "{" to its matching "}"
balanced_object(s) ==
    LET opens == {i \in 1..Len(s) : s[i] = "{"}
    IN  IF opens = {} THEN <<>>
        ELSE LET start == CHOOSE a \in opens : \A b \in opens : a <= b
                 end == brace_scan(s, start, 0)
             IN  IF end # 0 THEN SubSeq(s, start, end) ELSE <<>>

---------------------------------------------------------------------------
(* json.loads on the texts of the model: objects, strings without escapes, *)
(* runs of digits, blanks                                                  *)

JFail == [ok |-> FALSE, val |-> PyNone, next |-> 0]

\* "<chars>" at p
JString(s, p) ==
    LET closes == {e \in (p + 1)..Len(s) : s[e] = "\""}
    IN  IF p <= Len(s) /\ s[p] = "\"" /\ closes # {}
        THEN LET e == CHOOSE a \in closes : \A b \in closes : a <= b
             IN  [ok |-> TRUE, val |-> PyStr(SubSeq(s, p + 1, e - 1)), next |-> e + 1]
        ELSE JFail

RECURSIVE JDigitsEnd(_, _)
JDigitsEnd(s, p) == IF p <= Len(s) /\ s[p] \in Digit THEN JDigitsEnd(s, p + 1) ELSE p

JNumber(s, p) ==
    LET e == JDigitsEnd(s, p)
    IN  IF e > p THEN [ok |-> TRUE, val |-> PyInt(NatOf(SubSeq(s, p, e - 1))), next |-> e]
        ELSE JFail

RECURSIVE JValue(_, _), JMembers(_, _, _)

\* the members of an object from p (after "{" or ","), added to acc
JMembers(s, p, acc) ==
    LET k == JString(s, SkipWs(s, p))
    IN  IF ~k.ok THEN JFail
        ELSE LET c == SkipWs(s, k.next)
             IN  IF ~(c <= Len(s) /\ s[c] = ":") THEN JFail
                 ELSE LET v == JValue(s, SkipWs(s, c + 1))
                      IN  IF ~v.ok THEN JFail
                          ELSE LET e == SkipWs(s, v.next)
                                   acc2 == [x \in DOMAIN acc \cup {k.val.v} |->
                                               IF x = k.val.v THEN v.val ELSE acc[x]]
                               IN  IF e > Len(s) THEN JFail
                                   ELSE IF s[e] = "}" THEN
                                       [ok |-> TRUE, val |-> PyDict(acc2), next |-> e + 1]
                                   ELSE IF s[e] = "," THEN JMembers(s, e + 1, acc2)
                                   ELSE JFail

JValue(s, p) ==
    IF p > Len(s) THEN JFail
    ELSE IF s[p] = "{" THEN
        LET q == SkipWs(s, p + 1)
        IN  IF q <= Len(s) /\ s[q] = "}"
            THEN [ok |-> TRUE, val |-> PyDict(<<>>), next |-> q + 1]
            ELSE JMembers(s, p + 1, <<>>)
    ELSE IF s[p] = "\"" THEN JString(s, p)
    ELSE JNumber(s, p)

\* json.loads(text): the value, or a failure (JSONDecodeError)
json_loads(s) ==
    LET v == JValue(s, SkipWs(s, 1))
    IN  IF v.ok /\ SkipWs(s, v.next) > Len(s) THEN v ELSE JFail

---------------------------------------------------------------------------
(* parse_gemini_response *)

ParseResult(raised, value) == [raised |-> raised, value |-> value]

\* the try block: candidates[0].content.parts[0].text, or the early
\* "return None", or an exception (caught: return None)
navigate(r) ==
    LET candidates == OrDefault(DictGet(r, "candidates"), PyList(<<>>))
    IN  IF candidates.t = "exception" THEN [kind |-> "except"]
        ELSE IF ~Truthy(candidates) THEN [kind |-> "return_none"]
        ELSE LET first == Item0(candidates)
                 content == OrDefault(DictGet(first, "content"), PyDict(<<>>))
                 parts == OrDefault(DictGet(content, "parts"), PyList(<<>>))
             IN  IF parts.t = "exception" THEN [kind |-> "except"]
                 ELSE IF ~Truthy(parts) THEN [kind |-> "return_none"]
                 ELSE LET text == OrDefault(DictGet(Item0(parts), "text"), PyStr(<<>>))
                      IN  IF text.t = "exception" THEN [kind |-> "except"]
                          ELSE [kind |-> "text", text |-> text]

\* the part after the try block, for a str text
extract_json(text) ==
    LET m == fenced_search(text)
        json_str == IF m.ok THEN m.str ELSE balanced_object(text)
    IN  IF json_str = <<>> THEN ParseResult("none", PyNone)
        ELSE LET j == json_loads(json_str)
             IN  IF j.ok THEN ParseResult("none", j.val)
                 ELSE ParseResult("none", PyNone)

parse_gemini_response(r) ==
    LET nav == navigate(r)
    IN  IF nav.kind # "text" THEN ParseResult("none", PyNone)
        \* re.search is outside the try block: a text that is no str raises
        ELSE IF nav.text.t # "str" THEN ParseResult("TypeError", PyNone)
        ELSE extract_json(nav.text.v)

ParseIdle ==
    /\ raw = PyNone
    /\ parsed = ParseResult("not_called", PyNone)

---------------------------------------------------------------------------
(* call_llm: the environment, the result and the effects                   *)
(*                                                                         *)
(* A string is a sequence of atoms (characters or path components).  An    *)
(* effect is a record [op |-> ...] appended to a trace in the order the    *)
(* code performs it: getenv, open, import, api, sleep, post, write.        *)

Providers == {"openai", "chatgpt", "gemini", "deepseek", "mistral"}
OpenAIProviders == {"openai", "chatgpt"}

KeyVar(provider) ==
    CASE provider \in OpenAIProviders -> "OPENAI_API_KEY"
      [] provider = "gemini" -> "GEMINI_API_KEY"
      [] provider = "deepseek" -> "DEEPSEEK_API_KEY"

CredVar(provider) ==
    CASE provider \in OpenAIProviders -> "OPENAI_CRED_FILE"
      [] provider = "gemini" -> "GEMINI_CRED_FILE"
      [] provider = "deepseek" -> "DEEPSEEK_CRED_FILE"

EndpointVar(provider) ==
    CASE provider = "gemini" -> "GEMINI_ENDPOINT"
      [] provider = "deepseek" -> "DEEPSEEK_ENDPOINT"

\* os.path.join(os.getcwd(), '.secrets', '<provider>_key.txt')
DefaultCredFile(provider) ==
    CASE provider \in OpenAIProviders -> <<"cwd", ".secrets", "openai_key.txt">>
      [] provider = "gemini" -> <<"cwd", ".secrets", "gemini_key.txt">>
      [] provider = "deepseek" -> <<"cwd", ".secrets", "deepseek_key.txt">>

EnvNames ==
    { "OPENAI_API_KEY", "OPENAI_CRED_FILE",
      "GEMINI_API_KEY", "GEMINI_CRED_FILE", "GEMINI_ENDPOINT",
      "DEEPSEEK_API_KEY", "DEEPSEEK_CRED_FILE", "DEEPSEEK_ENDPOINT" }

\* os.getenv(name, default)
getenv(env, name, default) == IF env[name].t = "none" THEN default ELSE env[name]

NoFile == [exists |-> FALSE]
FileOf(text) == [exists |-> TRUE, text |-> text]

\* _read_key_from_file(path): the stripped content, or None when the file
\* cannot be read or holds nothing
_read_key_from_file(files, path) ==
    IF path \in DOMAIN files /\ files[path].exists
    THEN LET key == Strip(files[path].text)
         IN  IF key # <<>> THEN PyStr(key) ELSE PyNone
    ELSE PyNone

Getenv(name) == [op |-> "getenv", name |-> name]
Open(path) == [op |-> "open", path |-> path]

\* the key from the credential file first, then from the environment
\* variable
resolve_key_file_first(env, files, provider) ==
    LET cred == getenv(env, CredVar(provider), PyStr(DefaultCredFile(provider)))
        key == _read_key_from_file(files, cred.v)
    IN  IF Truthy(key)
        THEN [key |-> key, effects |-> <<Getenv(CredVar(provider)), Open(cred.v)>>]
        ELSE [key |-> getenv(env, KeyVar(provider), PyNone),
              effects |-> <<Getenv(CredVar(provider)), Open(cred.v),
                            Getenv(KeyVar(provider))>>]

\* the key from the environment variable first, then from the credential
\* file named by <PROVIDER>_CRED_FILE or the default one
resolve_key(env, files, provider) ==
    LET key == getenv(env, KeyVar(provider), PyNone)
    IN  IF Truthy(key)
        THEN [key |-> key, effects |-> <<Getenv(KeyVar(provider))>>]
        ELSE LET cred == getenv(env, CredVar(provider),
                                PyStr(DefaultCredFile(provider)))
             IN  [key |-> _read_key_from_file(files, cred.v),
                  effects |-> <<Getenv(KeyVar(provider)),
                                Getenv(CredVar(provider)), Open(cred.v)>>]

Return(value) == [raised |-> "none", value |-> value]
RuntimeError(msg) == [raised |-> "RuntimeError", msg |-> msg]
NoResult == [raised |-> "not_called"]

---------------------------------------------------------------------------
(* call_llm: dry run *)

ExcerptLen == 1000

\* s[:n]
Take(s, n) == SubSeq(s, 1, IF Len(s) < n THEN Len(s) ELSE n)

\* s.replace('\n', ' ')
ReplaceNewlines(s) == [i \in 1..Len(s) |-> IF s[i] = "\n" THEN " " ELSE s[i]]

simulated_response ==
    [quality |-> "MEDIUM",
     defects |-> <<[type |-> "short_shot",
                    reason |-> "low injection pressure in cycle"]>>,
     reasoning |-> <<"pressure dropped at transfer",
                     "cycle duration shorter than normal">>,
     confidence |-> [n |-> 65, k |-> 2],
     corrective_actions |-> <<"increase injection pressure by 5%",
                              "check feed system for blockage">>,
     suggestions_for_measurements |-> <<"capture pressure trace",
                                        "take cavity image">>]

dry_run_response(prompt, model) ==
    [status |-> "dry_run",
     model |-> model,
     prompt_excerpt |-> ReplaceNewlines(Take(prompt, ExcerptLen)),
     simulated_response |-> simulated_response]

---------------------------------------------------------------------------
(* call_llm: the gemini and deepseek branches                              *)
(*                                                                         *)
(* The outcome of requests.post is given by the network: the call raises   *)
(* ConnectionError or Timeout (no response), or returns a response with a  *)
(* status code, a text and the result of .json().                          *)

HttpProviders == {"gemini", "deepseek"}

Post(url, outcome) == [op |-> "post", url |-> url, outcome |-> outcome]
Write(file) == [op |-> "write", file |-> file]

NoResponse(exc) == [kind |-> exc]
Response(status_code, text, json) ==
    [kind |-> "response", status_code |-> status_code, text |-> text, json |-> json]

\* resp.json(): the decoded body, or ValueError
JsonValueError == [ok |-> FALSE]
JsonData(data) == [ok |-> TRUE, data |-> data]

raises_for_4xx(status_code) == 400 <= status_code /\ status_code < 500

\* Response.raise_for_status() of requests: HTTPError for 4xx and 5xx
raises_for_status(status_code) == 400 <= status_code /\ status_code < 600

FailedPrefix(provider) ==
    IF provider = "gemini" THEN "Gemini request failed" ELSE "Deepseek request failed"

\* parsed = parse_gemini_response(data) in try/except, p being what the
\* parser did; deepseek: "or None"
parsed_value(provider, p) ==
    IF p.raised # "none" THEN PyNone
    ELSE IF provider = "deepseek" THEN Or(p.value, PyNone)
    ELSE p.value

parsed_of(provider, data) == parsed_value(provider, parse_gemini_response(data))

\* out = {'status': 'ok', 'raw': data}, with 'parsed' when it is not None
ok_result(raw_, parsed_, effects_, saved) ==
    IF parsed_.t = "none"
    THEN [out |-> Return([status |-> "ok", raw |-> raw_]), effects |-> effects_]
    ELSE [out |-> Return([status |-> "ok", raw |-> raw_, parsed |-> parsed_]),
          effects |-> effects_ \o saved]

SavedParsed(provider) ==
    IF provider = "gemini"
    THEN <<Write("outputs/llm_responses/last_gemini_parsed.json")>>
    ELSE <<>>

\* the try block around requests.post, done is what the call did before it
http_request(provider, endpoint, net, done) ==
    IF net.kind # "response"
    \* requests.RequestException without a response
    THEN [out |-> RuntimeError([prefix |-> FailedPrefix(provider),
                                error |-> net.kind,
                                response_text |-> PyNone]),
          effects |-> done \o <<Post(endpoint, net)>>]
    ELSE IF raises_for_status(net.status_code)
    \* HTTPError: e.response is the response
    THEN [out |-> RuntimeError([prefix |-> FailedPrefix(provider),
                                error |-> "HTTPError",
                                response_text |-> PyStr(net.text)]),
          effects |-> done \o <<Post(endpoint, net)>>]
    ELSE IF ~net.json.ok
    THEN [out |-> Return([status |-> "ok", raw_text |-> net.text,
                          http_status |-> net.status_code]),
          effects |-> done \o <<Post(endpoint, net)>>]
    ELSE ok_result(net.json.data, parsed_of(provider, net.json.data),
                   done \o <<Post(endpoint, net)>>, SavedParsed(provider))

http_branch(provider, env, files, net) ==
    LET k == resolve_key(env, files, provider)
        endpoint == getenv(env, EndpointVar(provider), PyNone)
        looked == k.effects \o <<Getenv(EndpointVar(provider))>>
    IN  IF ~Truthy(k.key) \/ ~Truthy(endpoint)
        THEN [out |-> RuntimeError([prefix |-> "key and endpoint must be set"]),
              effects |-> looked]
        ELSE http_request(provider, endpoint.v, net, looked)

---------------------------------------------------------------------------
(* call_llm: the openai branch                                             *)
(*                                                                         *)
(* The installed openai package is given by sdk: whether it can be         *)
(* imported, and for each of the three client APIs whether it exists and   *)
(* how many of its first calls fail; text is what _extract_text finds in   *)
(* the response.                                                           *)

Import(module) == [op |-> "import", module |-> module]
Api(fn, model) == [op |-> "api", fn |-> fn, model |-> model]
Sleep(secs) == [op |-> "sleep", secs |-> secs]

Attempts == 3
FirstDelay == 1

\* what an API does at each attempt: "ok", or the exception it raises
ApiAbsent == [exists |-> FALSE]
ApiOutcomes(outcomes) == [exists |-> TRUE, outcomes |-> outcomes]
\* an API that raises at its first n attempts
ApiFails(n) ==
    ApiOutcomes([i \in 1..(Attempts + 1) |-> IF i <= n THEN "APIError" ELSE "ok"])

\* a delay that stays what it was
same_delay(delay) == delay

\* "delay *= 2"
next_delay(delay) == delay * 2

\* the exception of attempt i; last_exc = None before the loop
ExcOf(i, type) == [attempt |-> i, type |-> type]
NoExc == ExcOf(0, "None")

RECURSIVE try_loop(_, _, _, _, _, _)
\* "for _ in range(attempts)" from attempt i on, and the "raise last_exc"
\* that follows the loop: whether a value was returned, the attempt whose
\* value or exception came out, and the calls and sleeps made
try_loop(fn, model, outcomes, i, delay, last_exc) ==
    IF i > Attempts
    THEN [ok |-> FALSE, attempt |-> last_exc.attempt, type |-> last_exc.type,
          effects |-> <<>>]
    ELSE IF outcomes[i] = "ok"
    THEN [ok |-> TRUE, attempt |-> i, type |-> "ok", effects |-> <<Api(fn, model)>>]
    ELSE LET rest == try_loop(fn, model, outcomes, i + 1, next_delay(delay),
                              ExcOf(i, outcomes[i]))
         IN  [rest EXCEPT !.effects = <<Api(fn, model), Sleep(delay)>> \o @]

_try_call(fn, model, outcomes) == try_loop(fn, model, outcomes, 1, FirstDelay, NoExc)

ChatCompletions == "client.chat.completions.create"
LegacyChat == "openai.ChatCompletion.create"
LegacyCompletion == "openai.Completion.create"
ApiOrder == <<ChatCompletions, LegacyChat, LegacyCompletion>>

RECURSIVE try_apis(_, _, _)
\* the three "if resp is None: try ... except: resp = None" steps from the
\* n-th API on: the API that answered (or none) and the calls made
try_apis(sdk, model, n) ==
    IF n > Len(ApiOrder) THEN [resp |-> PyNone, effects |-> <<>>]
    ELSE LET fn == ApiOrder[n]
         IN  IF ~sdk.apis[fn].exists THEN try_apis(sdk, model, n + 1)
             ELSE LET c == _try_call(fn, model, sdk.apis[fn].outcomes)
                  IN  IF c.ok
                      THEN [resp |-> [api |-> fn, text |-> sdk.text], effects |-> c.effects]
                      ELSE LET rest == try_apis(sdk, model, n + 1)
                           IN  [resp |-> rest.resp, effects |-> c.effects \o rest.effects]

\* model or 'gpt-4o'
ModelOrDefault(model) == IF model = "" THEN "gpt-4o" ELSE model

\* text = _extract_text(resp) and the JSON found in it
parsed_text(text) == IF Truthy(text) THEN extract_json(text.v).value ELSE PyNone

\* what follows the calls, tried being what the fallback chain gave
openai_result(tried, done) ==
    IF tried.resp = PyNone
    THEN [out |-> RuntimeError([prefix |-> "OpenAI call failed with all attempted client APIs"]),
          effects |-> done \o tried.effects]
    ELSE ok_result(tried.resp, parsed_text(tried.resp.text), done \o tried.effects,
                   <<Write("outputs/llm_responses/last_openai_parsed.json")>>)

openai_call(model, sdk, done) ==
    openai_result(try_apis(sdk, ModelOrDefault(model), 1), done)

openai_branch(provider, model, env, files, sdk) ==
    IF ~sdk.installed
    THEN [out |-> RuntimeError([prefix |-> "openai package not installed"]),
          effects |-> <<Import("openai")>>]
    ELSE LET k == resolve_key(env, files, provider)
             looked == <<Import("openai")>> \o k.effects
         IN  IF ~Truthy(k.key)
             THEN [out |-> RuntimeError([prefix |-> "OPENAI_API_KEY must be set"]),
                   effects |-> looked]
             ELSE openai_call(model, sdk, looked)

---------------------------------------------------------------------------
(* call_llm *)

branches(provider, model, env, files, world) ==
    IF provider \in OpenAIProviders
    THEN openai_branch(provider, model, env, files, world.sdk)
    ELSE IF provider \in HttpProviders
    THEN http_branch(provider, env, files, world.net)
    ELSE [out |-> RuntimeError([prefix |-> "Provider not supported"]),
          effects |-> <<>>]

call_llm_dry_run_last(prompt, provider, model, dry_run, env, files, world) ==
    IF dry_run
    THEN [out |-> Return(dry_run_response(prompt, model)),
          effects |-> resolve_key(env, files, "openai").effects]
    ELSE branches(provider, model, env, files, world)

call_llm(prompt, provider, model, dry_run, env, files, world) ==
    IF dry_run
    THEN [out |-> Return(dry_run_response(prompt, model)), effects |-> <<>>]
    ELSE branches(provider, model, env, files, world)

LLMIdle ==
    /\ llm_env = [env |-> [n \in EnvNames |-> PyNone], files |-> <<>>]
    /\ llm_call = Idle
    /\ llm_out = NoResult
    /\ effects = <<>>

---------------------------------------------------------------------------
(* The stage scripts of the MouldCode=5001 pipeline                        *)
(*                                                                         *)
(* fs gives each file of outputs/ as absent or present with its number of  *)
(* data rows (0 for a JSON or PNG file).  A run of a script gives the new  *)
(* file system, how main() ended and the files it wrote.  What depends on  *)
(* the values in the data (a missing column, KMeans or PCA failing, no     *)
(* best k, the number of outliers) is given to the script as data.         *)

RAW == "ham_veri_mould_5001.csv"
CLEANED == "ham_veri_mould_5001_cleaned.csv"
CLEAN_SUMMARY == "clean_mould_5001_summary.json"
MODEL_READY == "ham_veri_mould_5001_model_ready.csv"
PREPARE_SUMMARY == "prepare_model_mould_5001_summary.json"
PRUNED == "ham_veri_mould_5001_pruned.csv"
PRUNE_SUMMARY == "prune_model_mould_5001_summary.json"
SCALED == "ham_veri_mould_5001_scaled.csv"
PCA_10 == "ham_veri_mould_5001_pca_10.csv"
PCA_2D == "ham_veri_mould_5001_pca_2d.png"
PCA_EXPLAINED == "ham_veri_mould_5001_pca_explained_variance.json"
CLUSTERS == "ham_veri_mould_5001_clusters.csv"
CLUSTER_METRICS == "ham_veri_mould_5001_cluster_metrics.json"
CLUSTERS_2D == "ham_veri_mould_5001_clusters_2d.png"
OUTLIERS == "ham_veri_mould_5001_outliers.csv"
NO_OUTLIERS_PRUNED == "ham_veri_mould_5001_no_outliers_pruned.csv"
NO_OUTLIERS_PCA_10 == "ham_veri_mould_5001_no_outliers_pca_10.csv"
DETECT_SUMMARY == "detect_remove_outliers_summary.json"
CLUSTERS_NO_OUTLIERS == "ham_veri_mould_5001_clusters_no_outliers.csv"
CLUSTER_METRICS_NO_OUTLIERS == "ham_veri_mould_5001_cluster_metrics_no_outliers.json"
CLUSTERS_NO_OUTLIERS_2D == "ham_veri_mould_5001_clusters_no_outliers_2d.png"

OutputFiles ==
    { RAW, CLEANED, CLEAN_SUMMARY, MODEL_READY, PREPARE_SUMMARY, PRUNED,
      PRUNE_SUMMARY, SCALED, PCA_10, PCA_2D, PCA_EXPLAINED, CLUSTERS,
      CLUSTER_METRICS, CLUSTERS_2D, OUTLIERS, NO_OUTLIERS_PRUNED,
      NO_OUTLIERS_PCA_10, DETECT_SUMMARY, CLUSTERS_NO_OUTLIERS,
      CLUSTER_METRICS_NO_OUTLIERS, CLUSTERS_NO_OUTLIERS_2D }

Absent == [exists |-> FALSE]
Present(rows) == [exists |-> TRUE, rows |-> rows]

\* Path.exists()
exists(f, file) == f[file].exists

\* len(pd.read_csv(file))
len_csv(f, file) == f[file].rows

RECURSIVE write_all(_, _)
\* the writes ws = <<file, rows>>, ... done in order
write_all(f, ws) ==
    IF ws = <<>> THEN f
    ELSE write_all([f EXCEPT ![ws[1][1]] = Present(ws[1][2])], Tail(ws))

\* main() ended: how, and after which writes
Ran(f, how, ws) ==
    [fs |-> write_all(f, ws), how |-> how,
     written |-> {ws[i][1] : i \in 1..Len(ws)}]

\* the stages that read one CSV and write one CSV of as many rows and a
\* summary
csv_to_csv(f, input_csv, out_csv, out_json) ==
    IF ~exists(f, input_csv) THEN Ran(f, "missing_input", <<>>)
    ELSE Ran(f, "done", << <<out_csv, len_csv(f, input_csv)>>, <<out_json, 0>> >>)

clean_main(f) == csv_to_csv(f, RAW, CLEANED, CLEAN_SUMMARY)
prepare_main(f) == csv_to_csv(f, CLEANED, MODEL_READY, PREPARE_SUMMARY)
prune_main(f) == csv_to_csv(f, MODEL_READY, PRUNED, PRUNE_SUMMARY)

\* scale_and_pca: ValueError without MeasuredCycleDuration, then the scaled
\* CSV, then PCA (which may fail), the PCA CSV, the plot and the JSON
scale_and_pca(f, input_csv, data) ==
    IF data = "no_duration" THEN Ran(f, "raised", <<>>)
    ELSE IF data = "pca_fails"
    THEN Ran(f, "raised", << <<SCALED, len_csv(f, input_csv)>> >>)
    ELSE Ran(f, "done", << <<SCALED, len_csv(f, input_csv)>>, <<PCA_10, len_csv(f, input_csv)>>,
                           <<PCA_2D, 0>>, <<PCA_EXPLAINED, 0>> >>)

features_main(f, data) ==
    IF ~exists(f, PRUNED) THEN Ran(f, "missing_input", <<>>)
    ELSE scale_and_pca(f, PRUNED, data)

\* after the input checks of the two clustering scripts
cluster_and_merge(f, PCA_IN, PRUNED_IN, out_csv, out_metrics, out_plot, data) ==
    IF data.kmeans = "fails" THEN Ran(f, "raised", <<>>)
    ELSE IF data.kmeans = "no_best_k"
    THEN Ran(f, "no_best_k", << <<out_metrics, 0>> >>)
    \* merged['cluster'] = labels needs as many labels as rows
    ELSE IF len_csv(f, PCA_IN) # len_csv(f, PRUNED_IN)
    THEN Ran(f, "raised", << <<out_metrics, 0>> >>)
    ELSE IF data.two_d
    THEN Ran(f, "done", << <<out_metrics, 0>>, <<out_csv, len_csv(f, PRUNED_IN)>>,
                           <<out_plot, 0>> >>)
    ELSE Ran(f, "done", << <<out_metrics, 0>>, <<out_csv, len_csv(f, PRUNED_IN)>> >>)

clustering_main(f, data) ==
    IF ~exists(f, PCA_10) THEN Ran(f, "missing_input", <<>>)
    ELSE IF ~exists(f, PRUNED) THEN Ran(f, "missing_input", <<>>)
    ELSE cluster_and_merge(f, PCA_10, PRUNED, CLUSTERS, CLUSTER_METRICS,
                           CLUSTERS_2D, data)

\* the no-outlier clustering run on the inputs of the first clustering
clustering_no_outliers_on_all_rows(f, data) ==
    IF ~exists(f, PCA_10) \/ ~exists(f, PRUNED)
    THEN Ran(f, "missing_input", <<>>)
    ELSE cluster_and_merge(f, PCA_10, PRUNED,
                           CLUSTERS_NO_OUTLIERS, CLUSTER_METRICS_NO_OUTLIERS,
                           CLUSTERS_NO_OUTLIERS_2D, data)

clustering_no_outliers_main(f, data) ==
    IF ~exists(f, NO_OUTLIERS_PCA_10) \/ ~exists(f, NO_OUTLIERS_PRUNED)
    THEN Ran(f, "missing_input", <<>>)
    ELSE cluster_and_merge(f, NO_OUTLIERS_PCA_10, NO_OUTLIERS_PRUNED,
                           CLUSTERS_NO_OUTLIERS, CLUSTER_METRICS_NO_OUTLIERS,
                           CLUSTERS_NO_OUTLIERS_2D, data)

rows_match_unchecked(f) == TRUE

\* len(pca) == len(clusters) == len(pruned)
rows_match(f) ==
    /\ len_csv(f, PCA_10) = len_csv(f, CLUSTERS)
    /\ len_csv(f, CLUSTERS) = len_csv(f, PRUNED)

\* detect_remove_outliers main(), total_outliers being outlier_mask.sum()
detect_main(f, total_outliers) ==
    IF ~exists(f, PCA_10) \/ ~exists(f, CLUSTERS) \/ ~exists(f, PRUNED)
    THEN Ran(f, "missing_input", <<>>)
    ELSE IF ~rows_match(f) THEN Ran(f, "rows_mismatch", <<>>)
    ELSE Ran(f, "done",
             << <<OUTLIERS, total_outliers>>,
                <<NO_OUTLIERS_PRUNED, len_csv(f, PRUNED) - total_outliers>>,
                <<NO_OUTLIERS_PCA_10, len_csv(f, PCA_10) - total_outliers>>,
                <<DETECT_SUMMARY, 0>> >>)

NotRun == [stage |-> "none", n |-> 0, how |-> "none", written |-> {}]

PipelineIdle ==
    /\ fs = [file \in OutputFiles |-> Absent]
    /\ stage_run = NotRun

---------------------------------------------------------------------------
(* llm_prompts_taguchi.py: PromptGenerator                                 *)
(*                                                                         *)
(* A text is a sequence of atoms: a fixed phrase of the template is one    *)
(* atom, a value contributes the atoms of its str(), a line break is the   *)
(* atom "\n".  The Turkish phrases are written without diacritics.  A      *)
(* sample is a function from its keys to Python values.                    *)

PARAM_FIELDS ==
    << "InjectionStroke", "InjectionTime", "ActualStrokePosition",
       "MeasuredCycleDuration", "cluster3_flag", "SliderOutputTimePeriodValue",
       "MoldTemp2", "MaxInjectionPressure", "SliderInputTimePeriodValue",
       "CoolingTime", "OilTemperature", "DosingTime",
       "ClosingForceGenerationTimePeriodValue", "MoldTemp6", "BarrelTemp1" >>

\* f"{x}": str(x) of a str, of None and of a non-negative int
Format(x) ==
    CASE x.t = "str" -> x.v
      [] x.t = "none" -> <<"None">>
      [] x.t = "int" -> Digits(x.v)

level_to_description(A, B, C, D) ==
    [context |-> CASE A = 1 -> "son 3 okuma"
                   [] A = 2 -> "son 10 okuma ve kisa ozet"
                   [] A = 3 -> "son 30 okuma ve ozet istatistikler (ortalama/std)"
                   [] OTHER -> "son 10 okuma",
     cot |-> CASE B = 1 -> "COT kapali"
               [] B = 2 -> "Kisa COT (2-4 adim)"
               [] B = 3 -> "Detayli COT (6-12 adim)"
               [] OTHER -> "COT kapali",
     output |-> CASE C = 1 -> "Serbest metin"
                  [] C = 2 -> "Yari yapilandirilmis (baslik + JSON)"
                  [] C = 3 -> "Siki JSON (yalnizca JSON)"
                  [] OTHER -> "Siki JSON",
     persona |-> CASE D = 1 -> "Notr"
                   [] D = 2 -> "Process Engineer"
                   [] D = 3 -> "Quality Expert"
                   [] OTHER -> "Notr"]

system ==
    "You are a concise Quality Expert specialized in injection molding. When asked, output ONLY the requested JSON between triple backticks."

\* the dict lookup [B]: B is 1, 2 or 3 (KeyError otherwise)
cot_instruction(B) ==
    CASE B = 1 -> "Do not include chain-of-thought; reasoning_steps should be an empty array."
      [] B = 2 -> "Provide a brief 2-4 step chain-of-thought in reasoning_steps."
      [] B = 3 -> "Provide a detailed 6-12 step chain-of-thought in reasoning_steps."

strict_json_note(C) ==
    IF C = 3
    THEN "Sadece ve yalnizca triple-backticks icinde gecerli JSON dondurun. JSON disinda hic bir metin yok."
    ELSE "JSON ile birlikte kisa aciklama kabul edilir."

do_not_use_timestamp ==
    << "Not: Lutfen 'Timestamp' veya diger meta bilgileri kalite degerlendirmesi icin kullanmayin; yalnizca 'Setpoints' ve 'Measurements' alanlarini kullanarak cikarim yapin. Cevabinizda zaman damgasi veya dahili kimlik bilgilerini belirtmeyin.",
       "\n", "\n" >>

\* the lines "Sistem: ..." to "Veri:"
head_lines(A, B, C, D) ==
    << "Sistem: ", system, "\n", "\n",
       "Baglam: Bu degerlendirme icin ", level_to_description(A, B, C, D).context,
       " kullanin. ", cot_instruction(B), "\n",
       "Cikti formati: ", level_to_description(A, B, C, D).output,
       ". Persona: ", level_to_description(A, B, C, D).persona, ". ",
       strict_json_note(C), "\n", "\n",
       "Veri:", "\n" >>

\* the data lines with a line for the sample's timestamp added
data_lines_with_timestamp(sample) ==
    <<"sample_id: ">> \o Format(Get(sample, "sample_id", PyNone)) \o <<"\n">>
    \o <<"Timestamp: ">> \o Format(Get(sample, "timestamp", PyNone)) \o <<"\n">>
    \o <<"Setpoints: ">> \o Format(Get(sample, "setpoints", PyNone)) \o <<"\n">>
    \o <<"Timeseries summary: ">> \o Format(Get(sample, "timeseries_summary", PyNone))
    \o <<"\n", "\n">>

\* the lines sample_id, Setpoints and Timeseries summary
data_lines(sample) ==
    <<"sample_id: ">> \o Format(Get(sample, "sample_id", PyNone)) \o <<"\n">>
    \o <<"Setpoints: ">> \o Format(Get(sample, "setpoints", PyNone)) \o <<"\n">>
    \o <<"Timeseries summary: ">> \o Format(Get(sample, "timeseries_summary", PyNone))
    \o <<"\n", "\n">>

\* sample.get('measurements') or sample.get('raw_row') or {}
measurements_of(sample) ==
    Or(Get(sample, "measurements", PyNone),
       Or(Get(sample, "raw_row", PyNone), PyDict(<<>>)))

RECURSIVE measurement_lines(_, _)
\* for k in PARAM_FIELDS: prompt += f"{k}: {measurements.get(k, '')}\n"
measurement_lines(measurements, ks) ==
    IF ks = <<>> THEN <<>>
    ELSE <<Head(ks), ": ">> \o Format(Get(measurements, Head(ks), PyStr(<<>>)))
         \o <<"\n">> \o measurement_lines(measurements, Tail(ks))

\* the block appended when measurements is a dict
measurement_block(m) ==
    IF m.t = "dict" THEN measurement_lines(m.v, PARAM_FIELDS) \o <<"\n">> ELSE <<>>

schema_lines ==
    << "JSON semasi: sample_id, quality (High/Medium/Low), confidence (0..1), predicted_defects (array), reasoning_steps (array), recommended_actions (array), provenance.",
       "\n",
       "Cevabi sadece triple-backticks icinde gecerli JSON olarak verin.", "\n" >>

\* generate_prompt(sample, A, B, C, D, prompt_id), utcnow being the clock's
\* reading: the dict returned, or the KeyError of cot_instruction
generate_prompt(sample, A, B, C, D, prompt_id, utcnow) ==
    IF B \notin 1..3 THEN [raised |-> "KeyError"]
    ELSE [raised |-> "none",
          system |-> system,
          prompt |-> head_lines(A, B, C, D) \o data_lines(sample)
                     \o do_not_use_timestamp \o <<"Measurements:", "\n">>
                     \o measurement_block(measurements_of(sample))
                     \o schema_lines,
          metadata |-> [prompt_id |-> prompt_id, A |-> A, B |-> B, C |-> C, D |-> D,
                        generated_at |-> utcnow, schema |-> "taguchi_v1"]]

\* generate_prompt has not been called
PromptIdle ==
    /\ pg = [A |-> 0, B |-> 0, C |-> 0, D |-> 0, todo |-> <<>>]
    /\ prompt_objs = <<>>

---------------------------------------------------------------------------
(* llm_taguchi_runner.py: run()                                            *)
(*                                                                         *)
(* taguchi holds the environment of the process, the module-level          *)
(* llm_client (None until imported), the samples still to do and the       *)
(* trial's parsed_ok counter; ndjson holds the rows written so far.        *)

\* str.lower() on the values the environment variable takes in the model
Lower(s) ==
    CASE s = "TRUE" -> "true"
      [] s = "Yes" -> "yes"
      [] OTHER -> s

\* os.environ.get('TAGUCHI_DRY_RUN', '').lower() in ('1', 'true', 'yes')
dry_flag(value) == Lower(value) \in {"1", "true", "yes"}

MEASUREMENT_FIELDS ==
    << "InjectionStroke", "InjectionTime", "ActualStrokePosition",
       "MeasuredCycleDuration", "cluster3_flag", "SliderOutputTimePeriodValue",
       "MoldTemp2", "MaxInjectionPressure", "SliderInputTimePeriodValue",
       "CoolingTime", "OilTemperature", "DosingTime",
       "ClosingForceGenerationTimePeriodValue", "MoldTemp6", "BarrelTemp1" >>

\* setpoints = f"mold_temp={...}C,inj_pressure={...}bar,cycle_time={...}s"
setpoints_of(r) ==
    <<"mold_temp=">> \o Format(Get(r, "mold_temperature", PyStr(<<"?">>)))
    \o <<"C,inj_pressure=">> \o Format(Get(r, "injection_pressure", PyStr(<<"?">>)))
    \o <<"bar,cycle_time=">> \o Format(Get(r, "MeasuredCycleDuration", PyStr(<<"?">>)))
    \o <<"s">>

\* one element of load_samples' out list; the random id and the current
\* time are given as tokens
load_sample(r) ==
    [sample_id |-> Or(Get(r, "sample_id", PyNone),
                   Or(Get(r, "id", PyNone),
                   Or(Get(r, "RowID", PyNone), PyStr(<<"random">>)))),
     MouldCode |-> Get(r, "MouldCode", PyStr(<<"5001">>)),
     timestamp |-> Or(Get(r, "timestamp", PyNone),
                   Or(Get(r, "Ts", PyNone), PyStr(<<"utcnow">>))),
     setpoints |-> PyStr(setpoints_of(r)),
     timeseries_summary |-> Or(Get(r, "timeseries_summary", PyNone),
                               PyStr(<<"timeseries not provided">>)),
     measurements |-> PyDict([f \in {MEASUREMENT_FIELDS[i] : i \in DOMAIN MEASUREMENT_FIELDS}
                                 |-> Get(r, f, PyStr(<<>>))]),
     raw_row |-> PyDict(r)]

\* resp = {'error': str(e)}
ErrorResp(type, text) == [error |-> [type |-> type, text |-> text]]

\* what "resp = llm_client.call_llm(...)" leaves in resp, r being what
\* call_llm did: its dict, or the error record of "except Exception"
resp_of(r) ==
    IF r.out.raised = "none" THEN r.out.value
    ELSE [error |-> [type |-> r.out.raised, msg |-> r.out.msg]]

\* "resp = llm_client.call_llm(...)" with llm_client imported, done being
\* what the iteration did before, r what call_llm did
called(imports, done, r) ==
    [llm_client |-> "scripts.llm_client", imports |-> imports,
     resp |-> resp_of(r), effects |-> done \o r.effects]

\* the try block of one sample: the module-level llm_client afterwards,
\* resp, and what was done
try_block(t, prompt, env, files, world) ==
    IF dry_flag(t.dry_run)
    THEN IF t.llm_client = "None"
         \* the import is skipped and None has no attribute call_llm
         THEN [llm_client |-> "None", imports |-> t.imports,
               resp |-> ErrorResp("AttributeError",
                                  "'NoneType' object has no attribute 'call_llm'"),
               effects |-> <<>>]
         ELSE called(t.imports, <<>>,
                     call_llm(prompt, t.provider, "", TRUE, env, files, world))
    ELSE IF t.llm_client = "None" /\ ~t.importable
    THEN [llm_client |-> "None", imports |-> t.imports + 1,
          resp |-> ErrorResp("ModuleNotFoundError", "No module named 'requests'"),
          effects |-> <<Import("scripts.llm_client")>>]
    ELSE IF t.llm_client = "None"
    THEN called(t.imports + 1, <<Import("scripts.llm_client")>>,
                call_llm(prompt, t.provider, "", FALSE, env, files, world))
    ELSE called(t.imports, <<>>,
                call_llm(prompt, t.provider, "", FALSE, env, files, world))

\* parsed = resp.get('parsed') or resp.get('json') or None
parsed_field(resp) ==
    IF "parsed" \in DOMAIN resp /\ Truthy(resp.parsed) THEN resp.parsed
    ELSE IF "json" \in DOMAIN resp /\ Truthy(resp.json) THEN resp.json
    ELSE PyNone

Redacted == {"MouldCode", "timestamp"}

\* the NDJSON row of one sample
row_of(trial_id, s, prompt, resp) ==
    [trial_id |-> trial_id,
     sample_id |-> s.sample_id,
     prompt |-> prompt,
     raw_response |-> resp,
     parsed |-> parsed_field(resp),
     parse_ok |-> Truthy(parsed_field(resp)),
     internal_metadata |-> [MouldCode |-> s.MouldCode, timestamp |-> s.timestamp],
     raw_row_redacted |-> [k \in DOMAIN Or(s.raw_row, PyDict(<<>>)).v \ Redacted
                              |-> s.raw_row.v[k]]]

NoRun ==
    [dry_run |-> "", provider |-> "gemini", importable |-> FALSE,
     llm_client |-> "None", imports |-> 0, trial_id |-> "0",
     A |-> 0, B |-> 0, C |-> 0, D |-> 0, todo |-> <<>>,
     parsed_ok |-> 0, summary |-> FALSE]

RunnerIdle ==
    /\ taguchi = NoRun
    /\ ndjson = <<>>

---------------------------------------------------------------------------
(* retrofit_ndjson_format.py: ensure_internal and process_file *)

\* a line of an NDJSON file, without its line terminator: blank, text that
\* json.loads rejects, or a JSON value; pad says the line has leading or
\* trailing whitespace, canonical that its text is what json.dumps writes
BlankLine == [kind |-> "blank"]
TextLine(s, pad) == [kind |-> "text", s |-> s, pad |-> pad]
JsonLine(value, canonical, pad) ==
    [kind |-> "json", value |-> value, canonical |-> canonical, pad |-> pad]

\* line.strip()
strip_line(line) ==
    IF line.kind = "blank" THEN line ELSE [line EXCEPT !.pad = FALSE]

\* json.dumps(obj, ensure_ascii=False) + '\n'
dumps_line(obj) == JsonLine(obj, TRUE, FALSE)

redact_row(raw_row) ==
    IF raw_row.t # "dict" THEN PyDict(<<>>)
    ELSE PyDict([k \in DOMAIN raw_row.v \ {"MouldCode", "timestamp"} |-> raw_row.v[k]])

\* obj.get(k) of "if k in obj: x = obj.get(k)", None otherwise
top_level(d, k) == IF k \in DOMAIN d THEN d[k] ELSE PyNone

\* "if not x and isinstance(raw, dict): x = raw.get(k)"
from_raw_row(x, raw_row, k) ==
    IF ~Truthy(x) /\ raw_row.t = "dict" THEN DictGet(raw_row, k) ELSE x

\* the dict d with internal_metadata and raw_row_redacted set and the
\* top-level MouldCode and timestamp popped
with_internal(d, raw_row) ==
    PyDict([k \in (DOMAIN d \ {"MouldCode", "timestamp"})
                    \cup {"internal_metadata", "raw_row_redacted"} |->
              IF k = "internal_metadata"
              THEN PyDict([MouldCode |-> from_raw_row(top_level(d, "MouldCode"),
                                                      raw_row, "MouldCode"),
                           timestamp |-> from_raw_row(top_level(d, "timestamp"),
                                                      raw_row, "timestamp")])
              ELSE IF k = "raw_row_redacted" THEN redact_row(raw_row)
              ELSE d[k]])

\* ensure_internal(obj); a value that is not a dict has no .get (or does not
\* support "in"), which raises
ensure_internal(obj) ==
    IF obj.t # "dict" THEN Exc
    ELSE IF "internal_metadata" \in DOMAIN obj.v /\ obj.v.internal_metadata # PyNone
    THEN obj
    ELSE with_internal(obj.v, Or(DictGet(obj, "raw_row"), PyDict(<<>>)))

\* the .patched file and the original
NoPatched == [exists |-> FALSE]
Patched(lines) == [exists |-> TRUE, lines |-> lines]

\* process_file: not started, in the loop over the lines, ended
NotStarted == [pc |-> "idle", todo |-> <<>>, changed |-> FALSE]
RetrofitIdle ==
    /\ run_file = <<>>
    /\ patched_file = NoPatched
    /\ retrofit = NotStarted

---------------------------------------------------------------------------
(* src/clustering.py: best_k_by_silhouette *)

\* a silhouette in tenths, float('nan'), or float('-inf')
Num(n) == [t |-> "num", n |-> n]
NaN == [t |-> "nan"]
NegInf == [t |-> "neginf"]

\* one item of results: k and its info dict, with or without 'silhouette'
Info(k, silhouette) == [k |-> k, info |-> [model |-> "km", silhouette |-> silhouette]]
InfoNoSilhouette(k) == [k |-> k, info |-> [model |-> "km"]]

\* best_s = -1.0, in tenths
FirstBestS == -10

\* info.get('silhouette', float('-inf'))
silhouette_of(info) ==
    IF "silhouette" \in DOMAIN info THEN info.silhouette ELSE NegInf

\* "not np.isnan(s) and s > best_s", best_s being a finite number
improves(s, best_s) == s.t = "num" /\ s.n > best_s

RECURSIVE best_k_loop(_, _, _, _)
\* "for k, info in results.items()" from item i on
best_k_loop(items, i, best_k_, best_s) ==
    IF i > Len(items) THEN best_k_
    ELSE IF improves(silhouette_of(items[i].info), best_s)
    THEN best_k_loop(items, i + 1, PyInt(items[i].k), silhouette_of(items[i].info).n)
    ELSE best_k_loop(items, i + 1, best_k_, best_s)

best_k_by_silhouette(items) == best_k_loop(items, 1, PyNone, FirstBestS)

ClusteringIdle ==
    /\ results = <<>>
    /\ best_k = [called |-> FALSE]

---------------------------------------------------------------------------
(* clean_mould_5001.py: try_parse_timestamp and the timestamp step of main *)

\* the cells of the subset, by what pd.to_datetime makes of them: a date, a
\* time of day, a date with a time, a number, other text
DateCell(day) == [t |-> "date", day |-> day]
TimeCell(sec) == [t |-> "time", sec |-> sec]
StampCell(secs) == [t |-> "stamp", secs |-> secs]
NumberCell(n) == [t |-> "number", n |-> n]
TextCell == [t |-> "text"]

\* a datetime64 value, in seconds since 1970-01-01, or NaT
Timestamp(secs) == [t |-> "ts", secs |-> secs]
NaT == [t |-> "nat"]

DaySeconds == 86400

\* the day on which the script runs, in days since 1970-01-01
Today == 5

\* pd.to_datetime(cell, errors="coerce"): a date is its midnight, a time of
\* day is that time today, a number n is n nanoseconds after the epoch
to_datetime(cell) ==
    CASE cell.t = "date" -> Timestamp(cell.day * DaySeconds)
      [] cell.t = "time" -> Timestamp(Today * DaySeconds + cell.sec)
      [] cell.t = "stamp" -> Timestamp(cell.secs)
      [] cell.t = "number" -> Timestamp(0)
      [] OTHER -> NaT

\* str(date).strip() + " " + str(time).strip()
combined(date, time) ==
    IF date.t = "date" /\ time.t = "time"
    THEN StampCell(date.day * DaySeconds + time.sec)
    ELSE TextCell

\* a frame is its column names in order and its rows, each a function of
\* the column names
drop(d, names) ==
    [columns |-> SelectSeq(d.columns, LAMBDA c : c \notin names),
     data |-> [i \in 1..Len(d.data) |->
                 [c \in DOMAIN d.data[i] \ names |-> d.data[i][c]]]]

ColumnSet(d) == {d.columns[j] : j \in 1..Len(d.columns)}

\* pd.to_datetime(df[c], errors="coerce")
datetime_series(d, c) == [i \in 1..Len(d.data) |-> to_datetime(d.data[i][c])]

combined_series(d) ==
    [i \in 1..Len(d.data) |->
        to_datetime(combined(d.data[i]["DateOfLine"], d.data[i]["ActualTimeOfLine"]))]

\* ts.notna().sum() > 0
any_notna(ts) == \E i \in 1..Len(ts) : ts[i] # NaT

\* any(k in c.lower() for k in ("date", "time", "timestamp"))
DateLikeNames == {"timestamp", "DateOfLine", "ActualTimeOfLine", "CoolingTime"}

Parsed(ts, source) == [found |-> TRUE, ts |-> ts, source |-> source]
NotParsed == [found |-> FALSE, ts |-> <<>>, source |-> {}]

RECURSIVE any_date_column(_, _)
\* "for c in df.columns" from column j on
any_date_column(d, j) ==
    IF j > Len(d.columns) THEN NotParsed
    ELSE IF d.columns[j] \in DateLikeNames /\ any_notna(datetime_series(d, d.columns[j]))
    THEN Parsed(datetime_series(d, d.columns[j]), {d.columns[j]})
    ELSE any_date_column(d, j + 1)

try_parse_timestamp(d) ==
    IF "timestamp" \in ColumnSet(d) /\ any_notna(datetime_series(d, "timestamp"))
    THEN Parsed(datetime_series(d, "timestamp"), {"timestamp"})
    ELSE IF {"DateOfLine", "ActualTimeOfLine"} \subseteq ColumnSet(d)
            /\ any_notna(combined_series(d))
    THEN Parsed(combined_series(d), {"DateOfLine", "ActualTimeOfLine"})
    ELSE any_date_column(d, 1)

\* df["_ts"].min(): the least of the timestamps that are not NaT
ts_min(ts) ==
    CHOOSE m \in {ts[i].secs : i \in {j \in 1..Len(ts) : ts[j] # NaT}} :
        \A i \in 1..Len(ts) : ts[i] # NaT => m <= ts[i].secs

\* 1970-01-01 was a Thursday (dayofweek 3)
dayofweek(secs) == ((secs \div DaySeconds) + 3) % 7

TsFeatures == <<"ts_hour", "ts_minute", "ts_dayofweek", "ts_elapsed_seconds">>

\* the four features of one timestamp; NaN for NaT
ts_feature(name, t, least) ==
    IF t = NaT THEN NaN
    ELSE CASE name = "ts_hour" -> NumberCell((t.secs % DaySeconds) \div 3600)
           [] name = "ts_minute" -> NumberCell((t.secs % 3600) \div 60)
           [] name = "ts_dayofweek" -> NumberCell(dayofweek(t.secs))
           [] OTHER -> NumberCell(t.secs - least)

\* the frame with the four feature columns of ts added
with_ts_features(d, ts) ==
    [columns |-> d.columns \o TsFeatures,
     data |-> [i \in 1..Len(d.data) |->
                 [c \in DOMAIN d.data[i] \cup {"ts_hour", "ts_minute", "ts_dayofweek",
                                               "ts_elapsed_seconds"} |->
                    IF c \in DOMAIN d.data[i] THEN d.data[i][c]
                    ELSE ts_feature(c, ts[i], ts_min(ts))]]]

\* "if ts_series is not None: ... else: ..." of main, p being what
\* try_parse_timestamp returned for d
timestamp_step(d, p) ==
    IF p.found THEN drop(with_ts_features(d, p.ts), p.source) ELSE d

IdLikeColumns == {"Id", "NumberOfLine", "ActualTimeOfLine"}

\* main, from the read of the subset to the drop of the timestamp columns
clean_frame(d) ==
    timestamp_step(drop(d, IdLikeColumns), try_parse_timestamp(drop(d, IdLikeColumns)))

---------------------------------------------------------------------------
(* data_processing.py: summarize_df *)

\* an argument that is no DataFrame and has no shape attribute
NoShape == [t |-> "list"]

\* hasattr(df, "shape")
has_shape(x) == "columns" \in DOMAIN x

\* the cells of the column at position j
column_cells(d, j) == [i \in 1..Len(d.data) |-> d.data[i][j]]

\* str(df[col].dtype) of a column with these cells: integers only, numbers
\* and missing values, or anything else
dtype_of(cells) ==
    IF cells # <<>> /\ \A i \in 1..Len(cells) : cells[i].t = "num" /\ cells[i].k = 0
    THEN "int64"
    ELSE IF cells # <<>> /\ \A i \in 1..Len(cells) : cells[i].t \in {"num", "nan"}
    THEN "float64"
    ELSE "object"

\* df.isnull().sum() for the column at position j
null_count(d, j) == Cardinality({i \in 1..Len(d.data) : IsMissing(d.data[i][j])})

\* df[col] is a Series only if one column has the label col; for a label
\* that several columns have it is a DataFrame, which has no dtype
is_series(d, col) == Cardinality(ColumnPos(d, col)) = 1

\* df.head(5)
HeadRows == 5

\* the dict summarize_df returns for a frame whose labels are distinct
summary_of(d) ==
    [num_rows |-> Len(d.data),
     num_cols |-> Len(d.columns),
     columns |-> [j \in 1..Len(d.columns) |->
                    [name |-> d.columns[j], dtype |-> dtype_of(column_cells(d, j))]],
     null_counts |-> [col \in {d.columns[j] : j \in 1..Len(d.columns)} |->
                        null_count(d, CHOOSE j \in ColumnPos(d, col) : TRUE)],
     sample_head |-> [i \in 1..(IF Len(d.data) < HeadRows THEN Len(d.data) ELSE HeadRows) |->
                        [col \in {d.columns[j] : j \in 1..Len(d.columns)} |->
                           d.data[i][CHOOSE j \in ColumnPos(d, col) : TRUE]]]]

summarize_df(x) ==
    IF ~has_shape(x) THEN [raised |-> "TypeError"]
    ELSE IF \E j \in 1..Len(x.columns) : ~is_series(x, x.columns[j])
    THEN [raised |-> "AttributeError"]
    ELSE [raised |-> "none", summary |-> summary_of(x)]

---------------------------------------------------------------------------
(* detect_remove_outliers_mould_5001.py: thresholds per cluster            *)
(*                                                                         *)
(* The PCA space is modelled in one dimension with integer coordinates     *)
(* 0..MaxCoord.  A cluster is given by the number of rows it has at each   *)
(* coordinate (rows of equal coordinate have equal distances).  Distances  *)
(* are kept as integers: with n rows in the cluster, Dist is n times the   *)
(* Euclidean distance to the centroid, and every comparison below is the   *)
(* code's comparison multiplied through by a positive factor.              *)

MaxCoord == 4
Coords == 0..MaxCoord
MinRobustSize == 30
MadFactor == 6
SigmaFactor == 3

Abs(x) == IF x < 0 THEN -x ELSE x

RECURSIVE SumTo(_, _)
\* f[0] + ... + f[k]
SumTo(f, k) == IF k < 0 THEN 0 ELSE f[k] + SumTo(f, k - 1)

\* Xi.shape[0]
ClusterSize(c) == SumTo(c, MaxCoord)

\* n * centroid = the sum of the coordinates of the cluster's rows
CoordSum(c) == SumTo([v \in Coords |-> c[v] * v], MaxCoord)

\* n * np.linalg.norm(Xi - centroid) of a row at coordinate v
Dist(c, v) == Abs(ClusterSize(c) * v - CoordSum(c))

\* the k-th smallest of the rows' values g[v]
Kth(c, g, k) ==
    LET present == {g[v] : v \in {u \in Coords : c[u] > 0}}
        upto(e) == SumTo([v \in Coords |-> IF g[v] <= e THEN c[v] ELSE 0], MaxCoord)
        enough == {e \in present : upto(e) >= k}
    IN  CHOOSE e \in enough : \A f \in enough : e <= f

\* 2 * np.median of the rows' values g[v]
Median2(c, g) ==
    LET n == ClusterSize(c)
    IN  IF n % 2 = 1 THEN 2 * Kth(c, g, (n + 1) \div 2)
        ELSE Kth(c, g, n \div 2) + Kth(c, g, n \div 2 + 1)

\* 2 * n * med
Med2(c) ==
    LET dists == [v \in Coords |-> Dist(c, v)]
    IN  Median2(c, dists)

\* 4 * n * mad(dists): np.median(np.abs(x - med))
Mad4(c) ==
    LET med2 == Med2(c)
        dev == [v \in Coords |-> Abs(2 * Dist(c, v) - med2)]
    IN  Median2(c, dev)

\* if Xi.shape[0] >= 30 and cluster_mad > 0
robust(c) == ClusterSize(c) >= MinRobustSize /\ Mad4(c) > 0

\* dists > med + 6 * cluster_mad, times 4n
thresh_robust(c) == 2 * Med2(c) + MadFactor * Mad4(c)
above_robust(c, v) == 4 * Dist(c, v) > thresh_robust(c)

\* dists > mu + 3 * sigma: with S = sum of the n*dists and
\* Q = n^2 * variance, d - mu > 3 sigma iff n*d - S > 0 and (n*d - S)^2 > 9 Q
above_sigma(c, v) ==
    LET n == ClusterSize(c)
        S == SumTo([u \in Coords |-> c[u] * Dist(c, u)], MaxCoord)
        SQ == SumTo([u \in Coords |-> c[u] * Dist(c, u) * Dist(c, u)], MaxCoord)
        Q == n * SQ - S * S
        A == n * Dist(c, v) - S
    IN  A > 0 /\ Q <= (A * A - 1) \div (SigmaFactor * SigmaFactor)

\* np.unique(labels)
Labels == {0, 1}
present_labels(r) == {lab \in Labels : ClusterSize(r[lab]) > 0}

\* out_idx_local = idx[dists > thresh]: the coordinates of the marked rows
cluster_outliers(c) ==
    IF robust(c)
    THEN LET thresh == thresh_robust(c)
         IN  {v \in Coords : c[v] > 0 /\ 4 * Dist(c, v) > thresh}
    ELSE {v \in Coords : c[v] > 0 /\ above_sigma(c, v)}

cluster_details(c) ==
    LET out_idx_local == cluster_outliers(c)
    IN  [cluster_size |-> ClusterSize(c),
         method |-> IF robust(c) THEN "median+6*MAD" ELSE "mean+3*std",
         outliers_found |-> SumTo([v \in Coords |->
                                IF v \in out_idx_local THEN c[v] ELSE 0], MaxCoord)]

\* the numbers of rows a cluster may have at one coordinate
CountChoices == {0, 1, 15}

\* the loop "for lab in np.unique(labels)" of main()
DetectOutliers ==
    /\ details = <<>>
    /\ details' = [lab \in present_labels(clusters) |-> cluster_details(clusters[lab])]
    /\ outlier_mask' = [lab \in present_labels(clusters) |-> cluster_outliers(clusters[lab])]
    /\ clusters' = clusters
    /\ UNCHANGED <<dataVars, parseVars, llmVars, pipeVars, runnerVars, retroVars, clusteringVars, promptVars>>

OutlierIdle ==
    /\ clusters = [lab \in Labels |-> [v \in Coords |-> 0]]
    /\ details = <<>>
    /\ outlier_mask = <<>>

InitOutlier ==
    /\ clusters \in [Labels -> [Coords -> CountChoices]]
    /\ clusters[1] \in [Coords -> {0, 15}]
    /\ \A v \in Coords : v + 1 < MaxCoord => clusters[1][v] = 0
    /\ details = <<>>
    /\ outlier_mask = <<>>
    /\ DataIdle
    /\ ParseIdle
    /\ LLMIdle
    /\ PipelineIdle
    /\ RunnerIdle
    /\ RetrofitIdle
    /\ ClusteringIdle
    /\ PromptIdle

SpecOutlier == InitOutlier /\ [][DetectOutliers]_vars

---------------------------------------------------------------------------
(* C7 *)

\* the row's distance exceeds median + 6*MAD of its cluster (times 4n)
C7_AboveMedianMad(c, v) == above_robust(c, v)

\* C7: the threshold of a cluster is median + 6*MAD of its centroid distances
\* whenever the cluster has at least 30 rows, and mean + 3*std otherwise; a
\* row is an outlier exactly when its distance to its own cluster's centroid
\* is strictly greater than that threshold.
C7_ThresholdBySize ==
    \A lab \in DOMAIN details :
        LET c == clusters[lab]
        IN  IF ClusterSize(c) >= 30
            THEN /\ details[lab].method = "median+6*MAD"
                 /\ outlier_mask[lab] = {v \in Coords : c[v] > 0 /\ C7_AboveMedianMad(c, v)}
            ELSE /\ details[lab].method = "mean+3*std"
                 /\ outlier_mask[lab] = {v \in Coords : c[v] > 0 /\ above_sigma(c, v)}

---------------------------------------------------------------------------
(* filter_by_value: the inputs and the call *)

MaxFilterRows == 3

S5001 == <<"5", "0", "0", "1">>
MouldCode == StrCell(<<"M", "o", "u", "l", "d", "C", "o", "d", "e">>)
VCol == StrCell(<<"v">>)
OtherCol == StrCell(<<"x">>)

FilterCells ==
    { StrCell(S5001), NumCell(5001), StrCell(<<"5", "0", "0", "2">>),
      StrCell(<<" ">> \o S5001), StrCell(S5001 \o <<".", "0">>),
      StrCell(<<"a", "b", "c">>), NoneCell, NaNCell }

FilterValues ==
    { StrCell(S5001), NumCell(5001), StrCell(<<" ">> \o S5001 \o <<" ">>),
      StrCell(<<"5", "0", "0", "2">>), StrCell(<<" ", "a", "b", "c">>),
      StrCell(<<"n", "a", "n">>), StrCell(<<"N", "o", "n", "e">>) }

\* a frame like the one of tests/test_cleaning.py: a MouldCode column and a
\* payload column v holding the row number
IsFilterFrame(d) ==
    \E n \in 0..MaxFilterRows : \E col \in [1..n -> FilterCells] :
        d = Frame(<<MouldCode, VCol>>, Range0(n),
                  [i \in 1..n |-> <<col[i], NumCell(i)>>])


\* filter_by_value(df, column, value); df[mask].copy() leaves df as it was
CallFilter ==
    \E column \in {MouldCode, OtherCol}, value \in FilterValues :
        /\ call' = [fn |-> "filter_by_value", column |-> column, value |-> value]
        /\ out' = filter_by_value(df, column, value)
        /\ df' = df
        /\ UNCHANGED <<parseVars, outlierVars, llmVars, pipeVars, runnerVars, retroVars, clusteringVars, promptVars>>

InitFilter ==
    /\ IsFilterFrame(df)
    /\ call = Idle
    /\ out = NotCalled
    /\ ParseIdle
    /\ OutlierIdle
    /\ LLMIdle
    /\ PipelineIdle
    /\ RunnerIdle
    /\ RetrofitIdle
    /\ ClusteringIdle
    /\ PromptIdle

SpecFilter == InitFilter /\ [][CallFilter]_vars

---------------------------------------------------------------------------
(* C1 *)

\* the value denotes a number: float(str(v).strip()) succeeds with a number
IsNumber(v) == LET p == ParseFloat(Strip(Str(v))) IN p.ok /\ ~p.nan

\* the match of the claim: equal as stripped strings, or equal as numbers
C1_Match(cell, v) ==
    \/ Strip(Str(cell)) = Strip(Str(v))
    \/ /\ IsNumber(v)
       /\ LET c == ToNumeric(cell)
              w == ParseFloat(Strip(Str(v)))
          IN  ~c.nan /\ c.n * Pow10(w.k) = w.n * Pow10(c.k)

\* C1: filter_by_value(df, c, v) on an existing column returns exactly the
\* rows of df, in their original order, whose cell equals v as a stripped
\* string or, when v is a number, as a number: the string cell "5001" and the
\* numeric cell 5001 are both returned for v = "5001", and a missing cell is
\* never returned for a numeric v.
C1_FilterExactRows ==
    (call.fn = "filter_by_value" /\ call.column = MouldCode) =>
        LET f == out.frame
            v == call.value
            kept == {i \in 1..Len(df.data) : C1_Match(df.data[i][1], v)}
        IN  /\ out.raised = "none"
            /\ f.columns = df.columns
            /\ Len(f.index) = Len(f.data)
            /\ Len(f.data) = Cardinality(kept)
            /\ \A p \in 1..Len(f.index) :
                  /\ f.index[p] + 1 \in kept
                  /\ f.data[p] = df.data[f.index[p] + 1]
                  /\ \A q \in 1..Len(f.index) : p < q => f.index[p] < f.index[q]
            /\ (v = StrCell(S5001) =>
                  \A i \in 1..Len(df.data) :
                      df.data[i][1] \in {StrCell(S5001), NumCell(5001)}
                          => \E p \in 1..Len(f.data) : f.data[p] = df.data[i])
            /\ (IsNumber(v) =>
                  \A p \in 1..Len(f.data) : ~IsMissing(f.data[p][1]))

\* the frame of test_filter_by_value's shape: "5001", 5001 and a missing
\* cell, filtered by "5001", gives the two rows
C1_Witness ==
    /\ call.fn = "filter_by_value"
    /\ call.column = MouldCode
    /\ call.value = StrCell(S5001)
    /\ Len(df.data) = 3
    /\ df.data[1][1] = StrCell(S5001)
    /\ df.data[2][1] = NoneCell
    /\ df.data[3][1] = NumCell(5001)
    /\ out.raised = "none"
    /\ out.frame.index = <<0, 2>>

---------------------------------------------------------------------------
(* normalize_header *)

Max(a, b) == IF a >= b THEN a ELSE b

\* df.iloc[0].fillna(""): the first row, a missing cell replaced by ""
first_row(d) ==
    [j \in 1..Len(d.columns) |->
        IF IsMissing(d.data[1][j]) THEN StrCell(<<>>) ELSE d.data[1][j]]

\* pd.to_numeric(x) does not raise
looks_like_number(s) == ParseFloat(s).ok

\* the count the loop over the first row leaves in str_like
str_like(first) ==
    Cardinality({j \in 1..Len(first) :
        LET s == Strip(Str(first[j]))
        IN  s # <<>> /\ ~looks_like_number(s)})

\* use_header = (str_like / max(total, 1)) >= 0.5
use_header(first) == 2 * str_like(first) >= Max(Len(first), 1)

new_cols_unstripped(first) ==
    [j \in 1..Len(first) |->
        IF Strip(Str(first[j])) # <<>> THEN Str(first[j])
        ELSE <<"c", "o", "l", "_">> \o Digits(j - 1)]

\* [str(x).strip() if str(x).strip() != "" else f"col_{i}" ...]
new_cols(first) ==
    [j \in 1..Len(first) |->
        IF Strip(Str(first[j])) # <<>> THEN Strip(Str(first[j]))
        ELSE <<"c", "o", "l", "_">> \o Digits(j - 1)]

RECURSIVE uniq_loop(_, _, _, _)
\* the loop "for c in new_cols" with its dict seen (-1: not in seen)
uniq_loop(cols, j, seen, uniq_cols) ==
    IF j > Len(cols) THEN uniq_cols
    ELSE LET c == cols[j]
         IN  IF seen[c] >= 0
             THEN uniq_loop(cols, j + 1, [seen EXCEPT ![c] = seen[c] + 1],
                            Append(uniq_cols, c \o <<"_">> \o Digits(seen[c] + 1)))
             ELSE uniq_loop(cols, j + 1, [seen EXCEPT ![c] = 0],
                            Append(uniq_cols, c))

uniq_cols_of(cols) ==
    uniq_loop(cols, 1, [c \in {cols[j] : j \in 1..Len(cols)} |-> -1], <<>>)

\* new_df = df.copy(); new_df.columns = ...; new_df.iloc[1:].reset_index(drop=True)
\* The result names what is returned (out) and what the argument object is
\* afterwards (df): every assignment is made to the copy.
normalize_header(d) ==
    IF Len(d.data) = 0 THEN [out |-> Returned(d), df |-> d]
    ELSE LET first == first_row(d)
         IN  IF ~use_header(first) THEN [out |-> Returned(d), df |-> d]
             ELSE LET uniq == uniq_cols_of(new_cols(first))
                      labels == [j \in 1..Len(uniq) |-> StrCell(uniq[j])]
                  IN  [out |-> Returned(Frame(labels, Range0(Len(d.data) - 1),
                                              Tail(d.data))),
                       df |-> d]

MaxCols == 3
MaxHeaderRows == 3

SId == <<"I", "d">>

HeaderCells ==
    { StrCell(SId), StrCell(<<" ">> \o SId), StrCell(SId \o <<"_", "1">>),
      NoneCell, StrCell(<<"1", "0">>), NumCell(1) }

BodyCells == {NumCell(1), StrCell(<<"1", "0">>)}

\* a raw frame as read without a header: columns 0..k-1, index 0..n-1, a
\* first row of arbitrary cells and m body rows filled with one cell; or
\* no row at all
IsHeaderFrame(d) ==
    \E k \in 1..MaxCols :
        \/ d = Frame([j \in 1..k |-> NumCell(j - 1)], <<>>, <<>>)
        \/ \E first \in [1..k -> HeaderCells], b \in BodyCells,
              m \in 0..(MaxHeaderRows - 1) :
                d = Frame([j \in 1..k |-> NumCell(j - 1)], Range0(1 + m),
                          <<first>> \o [i \in 1..m |-> [j \in 1..k |-> b]])

CallNormalizeHeader ==
    LET r == normalize_header(df)
    IN  /\ call' = [fn |-> "normalize_header"]
        /\ out' = r.out
        /\ df' = r.df
        /\ UNCHANGED <<parseVars, outlierVars, llmVars, pipeVars, runnerVars, retroVars, clusteringVars, promptVars>>

InitHeader ==
    /\ IsHeaderFrame(df)
    /\ call = Idle
    /\ out = NotCalled
    /\ ParseIdle
    /\ OutlierIdle
    /\ LLMIdle
    /\ PipelineIdle
    /\ RunnerIdle
    /\ RetrofitIdle
    /\ ClusteringIdle
    /\ PromptIdle

SpecHeader == InitHeader /\ [][CallNormalizeHeader]_vars

---------------------------------------------------------------------------
(* C2, C3 *)

\* the stripped string form of each first-row value
C2_Names(d) == [j \in 1..Len(d.columns) |-> Strip(Str(d.data[1][j]))]

\* the first row holds distinct non-empty values: none is missing, and their
\* stripped string forms are non-empty and pairwise different
C2_DistinctNonEmpty(d) ==
    /\ \A j \in 1..Len(d.columns) :
          ~IsMissing(d.data[1][j]) /\ C2_Names(d)[j] # <<>>
    /\ \A i, j \in 1..Len(d.columns) : i # j => C2_Names(d)[i] # C2_Names(d)[j]

C2_Step ==
    call'.fn = "normalize_header" =>
        /\ df' = df
        /\ out'.raised = "none"
        /\ (Len(df.data) > 0 /\ use_header(first_row(df)) /\ C2_DistinctNonEmpty(df)) =>
              /\ out'.frame.columns =
                    [j \in 1..Len(df.columns) |-> StrCell(C2_Names(df)[j])]
              /\ Len(out'.frame.data) = Len(df.data) - 1
              /\ out'.frame.data = Tail(df.data)
              /\ out'.frame.index = Range0(Len(df.data) - 1)
        /\ (Len(df.data) = 0 \/ ~use_header(first_row(df))) => out'.frame = df

C3_Promoted == Len(out.frame.data) + 1 = Len(df.data)

\* the first-row values that are non-empty, non-numeric strings
C3_StringLike(d) ==
    {j \in 1..Len(d.columns) :
        /\ ~IsMissing(d.data[1][j])
        /\ Strip(Str(d.data[1][j])) # <<>>
        /\ ~ParseFloat(Str(d.data[1][j])).ok}

\* C3: normalize_header treats the first row as the header if and only if
\* more than half of the first-row values are non-empty, non-numeric strings.
C3_MoreThanHalf ==
    (call.fn = "normalize_header" /\ Len(df.data) > 0) =>
        (C3_Promoted <=> 2 * Cardinality(C3_StringLike(df)) > Len(df.columns))

---------------------------------------------------------------------------
(* coerce_numeric *)

\* one cell of pd.to_numeric(column, errors="coerce")
coerced_cell(c) ==
    LET p == ToNumeric(c)
    IN  IF p.nan THEN NaNCell ELSE DecCell(p.n, p.k)

adopt_all(d, j) == \A i \in 1..Len(d.data) : ~IsMissing(coerced_cell(d.data[i][j]))

\* coerced.notna().sum() > 0: the coercion produced at least one number
adopt(d, j) == \E i \in 1..Len(d.data) : ~IsMissing(coerced_cell(d.data[i][j]))

\* out = df.copy(); for col in out.columns: ... out[col] = coerced
coerce_numeric(d, exclude_cols) ==
    LET coerce_col(j) == d.columns[j] \notin exclude_cols /\ adopt(d, j)
    IN  [out |-> Returned(Frame(d.columns, d.index,
                    [i \in 1..Len(d.data) |->
                        [j \in 1..Len(d.columns) |->
                            IF coerce_col(j) THEN coerced_cell(d.data[i][j])
                            ELSE d.data[i][j]]])),
         df |-> d]

MaxCoerceRows == 2

IdCol == StrCell(SId)
DateCol == StrCell(<<"D", "a", "t", "e">>)

CoerceCells == {StrCell(<<"1", "0">>), StrCell(SId), NumCell(1), NoneCell}

IsCoerceFrame(d) ==
    \E n \in 0..MaxCoerceRows : \E data \in [1..n -> [1..2 -> CoerceCells]] :
        d = Frame(<<IdCol, DateCol>>, Range0(n), data)

CallCoerceNumeric ==
    \E exclude_cols \in SUBSET {IdCol, DateCol} :
        LET r == coerce_numeric(df, exclude_cols)
        IN  /\ call' = [fn |-> "coerce_numeric", exclude_cols |-> exclude_cols]
            /\ out' = r.out
            /\ df' = r.df
            /\ UNCHANGED <<parseVars, outlierVars, llmVars, pipeVars, runnerVars, retroVars, clusteringVars, promptVars>>

InitCoerce ==
    /\ IsCoerceFrame(df)
    /\ call = Idle
    /\ out = NotCalled
    /\ ParseIdle
    /\ OutlierIdle
    /\ LLMIdle
    /\ PipelineIdle
    /\ RunnerIdle
    /\ RetrofitIdle
    /\ ClusteringIdle
    /\ PromptIdle

SpecCoerce == InitCoerce /\ [][CallCoerceNumeric]_vars

---------------------------------------------------------------------------
(* C4 *)

\* the cell holds a value that parses as a number
C4_Parseable(c) ==
    \/ c.t = "num"
    \/ c.t = "str" /\ LET p == ParseFloat(c.s) IN p.ok /\ ~p.nan

C4_Step ==
    call'.fn = "coerce_numeric" =>
        LET f == out'.frame
            rows == 1..Len(df.data)
        IN  /\ df' = df
            /\ out'.raised = "none"
            /\ f.columns = df.columns
            /\ f.index = df.index
            /\ Len(f.data) = Len(df.data)
            /\ \A j \in 1..Len(df.columns) :
                  IF df.columns[j] \in call'.exclude_cols
                       \/ ~\E i \in rows : C4_Parseable(df.data[i][j])
                  THEN \A i \in rows : f.data[i][j] = df.data[i][j]
                  ELSE \A i \in rows :
                          IF C4_Parseable(df.data[i][j])
                          THEN /\ f.data[i][j].t = "num"
                               /\ NumEq(ToNumeric(f.data[i][j]), ToNumeric(df.data[i][j]))
                          ELSE f.data[i][j] = NaNCell

\* C4: coerce_numeric returns a copy in which every non-excluded column with
\* at least one value that parses as a number is numeric (the cells that do
\* not parse are missing), every non-excluded column without such a value and
\* every excluded column is unchanged; the input DataFrame is the same after
\* the call.
C4_CoerceColumns == [][C4_Step]_vars

\* Id = <<"10", "Id">> is coerced to <<10, NaN>> while the excluded Date
\* column keeps its string "10"
C4_Witness ==
    /\ call.fn = "coerce_numeric"
    /\ call.exclude_cols = {DateCol}
    /\ Len(df.data) = 2
    /\ df.data[1] = <<StrCell(<<"1", "0">>), StrCell(<<"1", "0">>)>>
    /\ df.data[2] = <<StrCell(SId), NoneCell>>
    /\ out.frame.data[1] = <<NumCell(10), StrCell(<<"1", "0">>)>>
    /\ out.frame.data[2] = <<NaNCell, NoneCell>>

---------------------------------------------------------------------------
(* parse_gemini_response: the inputs and the call *)

MaxTextParts == 4

ObjA == <<"{", "\"", "a", "\"", ":", "1", "}">>
ObjBraceInString == <<"{", "\"", "a", "\"", ":", "\"", "}", "\"", "}">>
FencedObjA == Fence \o JsonWord \o <<" ">> \o ObjA \o Fence

\* the pieces a model answer is put together from
TextParts ==
    { Fence, JsonWord, ObjA, ObjBraceInString, FencedObjA, <<"{">>, <<"}">>, <<" ">>,
      <<"x">> }

\* values that are not what the response shape expects
Junk ==
    { PyNone, PyInt(0), PyInt(1), PyStr(<<>>), PyStr(<<"x">>), PyList(<<>>),
      PyList(<<PyInt(1)>>), PyDict(<<>>), PyDict([x |-> PyInt(1)]) }

PartOf(text) == PyDict([text |-> text])
PartsOf(part) == PyDict([parts |-> PyList(<<part>>)])
FirstOf(content) == PyDict([content |-> content])
RawOf(first) == PyDict([candidates |-> PyList(<<first>>)])

\* a Gemini generateContent response, well-formed down to some level
IsRaw(r) ==
    \/ r \in Junk
    \/ \E x \in Junk :
          \/ r = PyDict([candidates |-> x])
          \/ r = RawOf(x)
          \/ r = RawOf(FirstOf(x))
          \/ r = RawOf(FirstOf(PyDict([parts |-> x])))
          \/ r = RawOf(FirstOf(PartsOf(x)))
          \/ r = RawOf(FirstOf(PartsOf(PartOf(x))))
    \/ \E n \in 0..MaxTextParts : \E ps \in [1..n -> TextParts] :
          r = RawOf(FirstOf(PartsOf(PartOf(PyStr(Concat(ps))))))

CallParse ==
    /\ parsed' = parse_gemini_response(raw)
    /\ raw' = raw
    /\ UNCHANGED <<dataVars, outlierVars, llmVars, pipeVars, runnerVars, retroVars, clusteringVars, promptVars>>


InitParse ==
    /\ IsRaw(raw)
    /\ parsed = ParseResult("not_called", PyNone)
    /\ DataIdle
    /\ OutlierIdle
    /\ LLMIdle
    /\ PipelineIdle
    /\ RunnerIdle
    /\ RetrofitIdle
    /\ ClusteringIdle
    /\ PromptIdle

SpecParse == InitParse /\ [][CallParse]_vars

---------------------------------------------------------------------------
(* C6 *)

\* C6: parse_gemini_response returns a dict parsed from the JSON in the text
\* of the first part of the first candidate, or None; for every input
\* (missing or empty candidates/parts, non-dict shapes, non-string text, no
\* braces, unbalanced braces, invalid JSON) it returns None instead of
\* raising.
C6_DictOrNoneNeverRaises ==
    parsed.raised # "not_called" =>
        /\ parsed.raised = "none"
        /\ parsed.value.t \in {"dict", "none"}

---------------------------------------------------------------------------
(* call_llm: the inputs and the call *)

Key == <<"k">>
Endpoint == <<"https://endpoint/model:generateContent">>
CustomCredFile == <<"custom_key.txt">>
CredFiles ==
    { DefaultCredFile("openai"), DefaultCredFile("gemini"),
      DefaultCredFile("deepseek"), CustomCredFile }

\* the environment of a machine set up, more or less, for one provider
IsEnv(e) ==
    \E p \in {"openai", "gemini", "deepseek"} :
    \E key \in {PyNone, PyStr(<<>>), PyStr(Key)} :
    \E cred \in {PyNone, PyStr(<<>>), PyStr(CustomCredFile)} :
    \E endpoint \in {PyNone, PyStr(<<>>), PyStr(Endpoint)} :
    \E deflt \in {NoFile, FileOf(<<" ">>), FileOf(<<"k", "2", " ">>)} :
    \E custom \in {NoFile, FileOf(<<"k", "3">>)} :
        e = [env |-> [n \in EnvNames |->
                        IF n = KeyVar(p) THEN key
                        ELSE IF n = CredVar(p) THEN cred
                        ELSE IF p # "openai" /\ n = EndpointVar(p) THEN endpoint
                        ELSE PyNone],
             files |-> [f \in CredFiles |->
                        IF f = DefaultCredFile(p) THEN deflt
                        ELSE IF f = CustomCredFile THEN custom
                        ELSE NoFile]]

Prompts == { <<"p">>, <<"p", "\n", "q">> }
Models == { "gpt-4o", "" }


StatusCodes == {200, 304, 404, 500}

\* what a server answers: no JSON, a Gemini answer with a fenced object,
\* one with an empty object, one whose text is no string, an empty object
Bodies ==
    { [text |-> <<"x">>, json |-> JsonValueError],
      [text |-> <<"a">>, json |-> JsonData(RawOf(FirstOf(PartsOf(PartOf(PyStr(FencedObjA))))))],
      [text |-> <<"b">>, json |-> JsonData(RawOf(FirstOf(PartsOf(PartOf(PyStr(<<"{", "}">>))))))],
      [text |-> <<"c">>, json |-> JsonData(RawOf(FirstOf(PartsOf(PartOf(PyInt(1))))))],
      [text |-> <<"{", "}">>, json |-> JsonData(PyDict(<<>>))] }

HttpOutcomes ==
    { NoResponse("ConnectionError"), NoResponse("Timeout") }
    \cup { Response(s, b.text, b.json) : s \in StatusCodes, b \in Bodies }

NoSdk == [installed |-> FALSE]

Sdks ==
    { NoSdk }
    \cup { [installed |-> TRUE,
            apis |-> [fn \in {ChatCompletions, LegacyChat, LegacyCompletion} |->
                        IF fn = ChatCompletions THEN a
                        ELSE IF fn = LegacyChat THEN b ELSE c],
            text |-> t] :
           a \in {ApiAbsent, ApiFails(0), ApiFails(1), ApiFails(3)},
           b \in {ApiAbsent, ApiFails(0), ApiFails(3)},
           c \in {ApiFails(0), ApiFails(3)},
           t \in {PyNone, PyStr(<<"x">>), PyStr(FencedObjA)} }

\* the part of the world a call to this provider can meet
Worlds(provider) ==
    IF provider \in OpenAIProviders
    THEN { [sdk |-> s, net |-> NoResponse("ConnectionError")] : s \in Sdks }
    ELSE { [sdk |-> NoSdk, net |-> o] : o \in HttpOutcomes }

\* the call c ended as r
Called(c, r) ==
    /\ llm_call' = c
    /\ llm_out' = r.out
    /\ effects' = r.effects

CallLLM ==
    /\ llm_call = Idle
    /\ \E provider \in Providers, prompt \in Prompts, model \in Models,
          dry_run \in BOOLEAN :
       \E world \in Worlds(provider) :
          Called([fn |-> "call_llm", prompt |-> prompt, provider |-> provider,
                  model |-> model, dry_run |-> dry_run],
                 call_llm(prompt, provider, model, dry_run,
                          llm_env.env, llm_env.files, world))
    /\ UNCHANGED <<llm_env, dataVars, parseVars, outlierVars, pipeVars, runnerVars, retroVars, clusteringVars, promptVars>>

InitLLM ==
    /\ IsEnv(llm_env)
    /\ llm_call = Idle
    /\ llm_out = NoResult
    /\ effects = <<>>
    /\ DataIdle
    /\ ParseIdle
    /\ OutlierIdle
    /\ PipelineIdle
    /\ RunnerIdle
    /\ RetrofitIdle
    /\ ClusteringIdle
    /\ PromptIdle

SpecLLM == InitLLM /\ [][CallLLM]_vars

---------------------------------------------------------------------------
(* C5 *)

\* the operations that read a key, a variable or a file, or use the network
C5_Reads == {"getenv", "open"}
C5_Network == {"post", "api"}

\* C5: with dry_run=True, call_llm returns a dict with status 'dry_run' and
\* a simulated_response for every provider value, unsupported ones
\* included, without reading any API key, environment variable or
\* credential file and without making any network call.
C5_DryRunIsInert ==
    (llm_call # Idle /\ llm_call.dry_run) =>
        /\ llm_out.raised = "none"
        /\ llm_out.value.status = "dry_run"
        /\ "simulated_response" \in DOMAIN llm_out.value
        /\ \A i \in 1..Len(effects) : effects[i].op \notin C5_Reads \cup C5_Network

\* a dry run for an unsupported provider on a machine whose gemini key and
\* endpoint are set, and a dry run for gemini there
C5_Witness ==
    /\ llm_call # Idle
    /\ llm_call.dry_run
    /\ llm_call.provider \in {"mistral", "gemini"}
    /\ llm_env.env["GEMINI_API_KEY"] = PyStr(Key)
    /\ llm_env.env["GEMINI_ENDPOINT"] = PyStr(Endpoint)
    /\ llm_out = Return(dry_run_response(llm_call.prompt, llm_call.model))

---------------------------------------------------------------------------
(* C8 *)

\* the requests the call sent
C8_Posts == {i \in 1..Len(effects) : effects[i].op = "post"}

\* the request of a gemini or deepseek call ended as o
C8_Ended(o) ==
    /\ llm_call # Idle
    /\ llm_call.provider \in HttpProviders
    /\ \E i \in C8_Posts : effects[i].outcome = o

\* the failure is a RuntimeError, with the response text when there is one
C8_Surfaced(o) ==
    /\ llm_out.raised = "RuntimeError"
    /\ o.kind = "response" => llm_out.msg.response_text = PyStr(o.text)

\* C8 as stated: every HTTP failure (connection error, timeout, or non-2xx
\* status) of the gemini and deepseek branches is surfaced as a RuntimeError
\* whose message includes the response text whenever a response was
\* received; no status 'ok' dict is returned for a failed request.
C8_Non2xxIsRuntimeError ==
    \A o \in HttpOutcomes :
        (C8_Ended(o) /\ (o.kind # "response" \/ o.status_code \notin 200..299))
            => C8_Surfaced(o)

\* C8, amended: every connection error, timeout and 4xx or 5xx status of the
\* gemini and deepseek branches is surfaced as a RuntimeError whose message
\* includes the response text whenever a response was received, and no
\* status 'ok' dict is returned for it; a response with any other status is
\* returned as a status 'ok' dict.
C8_ErrorStatusIsRuntimeError ==
    \A o \in HttpOutcomes :
        C8_Ended(o) =>
            IF o.kind # "response" \/ o.status_code \in 400..599
            THEN C8_Surfaced(o)
            ELSE llm_out.raised = "none" /\ llm_out.value.status = "ok"

\* a 404 and a 500 answer with a body, surfaced with the body's text, and a
\* timeout surfaced without one
C8_Witness ==
    /\ llm_call # Idle
    /\ llm_call.provider \in HttpProviders
    /\ llm_out.raised = "RuntimeError"
    /\ \E i \in C8_Posts :
          /\ effects[i].outcome.kind = "response"
          /\ effects[i].outcome.status_code = 500
          /\ llm_out.msg.response_text = PyStr(effects[i].outcome.text)

---------------------------------------------------------------------------
(* The stage scripts: the file system they start from, and their runs *)

MaxRuns == 2
MaxCsvRows == 2

\* outputs/ before the first run: any of the files a stage reads may be
\* there, left by an earlier run or put there by hand
IsOutputs(f) ==
    \E subset, cleaned, ready \in {Absent, Present(MaxCsvRows)} :
    \E pruned, pca, clustered \in {Absent} \cup {Present(n) : n \in 1..MaxCsvRows} :
        f = [file \in OutputFiles |->
                CASE file = RAW -> subset
                  [] file = CLEANED -> cleaned
                  [] file = MODEL_READY -> ready
                  [] file = PRUNED -> pruned
                  [] file = PCA_10 -> pca
                  [] file = CLUSTERS -> clustered
                  [] OTHER -> Absent]

ClusteringData == [kmeans : {"fails", "no_best_k", "ok"}, two_d : BOOLEAN]

\* the script named stage ran and ended as r
Invoked(stage, r) ==
    /\ fs' = r.fs
    /\ stage_run' = [stage |-> stage, n |-> stage_run.n + 1, how |-> r.how,
                     written |-> r.written]
    /\ UNCHANGED <<dataVars, parseVars, outlierVars, llmVars, runnerVars, retroVars, clusteringVars, promptVars>>

Run(stage, r) == stage_run.n < MaxRuns /\ Invoked(stage, r)

RunClean == Run("clean", clean_main(fs))
RunPrepare == Run("prepare", prepare_main(fs))
RunPrune == Run("prune", prune_main(fs))
RunFeatures ==
    \E data \in {"no_duration", "pca_fails", "ok"} :
        Run("features", features_main(fs, data))
RunClustering ==
    \E data \in ClusteringData : Run("clustering", clustering_main(fs, data))
RunDetectOutliers ==
    \E total_outliers \in 0..MaxCsvRows :
        /\ exists(fs, PRUNED) => total_outliers <= len_csv(fs, PRUNED)
        /\ Run("detect_outliers", detect_main(fs, total_outliers))
RunClusteringNoOutliers ==
    \E data \in ClusteringData :
        Run("clustering_no_outliers", clustering_no_outliers_main(fs, data))

InitPipeline ==
    /\ IsOutputs(fs)
    /\ stage_run = NotRun
    /\ DataIdle
    /\ ParseIdle
    /\ OutlierIdle
    /\ LLMIdle
    /\ RunnerIdle
    /\ RetrofitIdle
    /\ ClusteringIdle
    /\ PromptIdle

NextPipeline ==
    \/ RunClean
    \/ RunPrepare
    \/ RunPrune
    \/ RunFeatures
    \/ RunClustering
    \/ RunDetectOutliers
    \/ RunClusteringNoOutliers

SpecPipeline == InitPipeline /\ [][NextPipeline]_vars

---------------------------------------------------------------------------
(* C9 *)

\* the input files each stage script requires
C9_Required(stage) ==
    CASE stage = "clean" -> {RAW}
      [] stage = "prepare" -> {CLEANED}
      [] stage = "prune" -> {MODEL_READY}
      [] stage = "features" -> {PRUNED}
      [] stage = "clustering" -> {PCA_10, PRUNED}
      [] stage = "detect_outliers" -> {PCA_10, CLUSTERS, PRUNED}
      [] stage = "clustering_no_outliers" -> {NO_OUTLIERS_PCA_10, NO_OUTLIERS_PRUNED}

C9_Stages ==
    { "clean", "prepare", "prune", "features", "clustering", "detect_outliers",
      "clustering_no_outliers" }

C9_Missing(stage) == \E file \in C9_Required(stage) : ~fs[file].exists

\* the PCA, clusters and pruned inputs do not all have the same row count
C9_RowsDiffer ==
    \E a, b \in {PCA_10, CLUSTERS, PRUNED} : fs[a].rows # fs[b].rows

\* the run reported, returned, and wrote no file
C9_WroteNothing ==
    /\ stage_run'.how \in {"missing_input", "rows_mismatch"}
    /\ stage_run'.written = {}
    /\ fs' = fs

C9_Step ==
    \A stage \in C9_Stages :
        (stage_run'.n = stage_run.n + 1 /\ stage_run'.stage = stage) =>
            /\ C9_Missing(stage) => C9_WroteNothing
            /\ (stage = "detect_outliers" /\ ~C9_Missing(stage) /\ C9_RowsDiffer)
                  => C9_WroteNothing

\* C9: each pipeline stage script (clean, prepare, prune, features,
\* clustering, outlier detection, no-outlier clustering) reports and returns
\* without writing any of its output files when a required input file is
\* missing; outlier detection also writes nothing when the PCA, clusters and
\* pruned inputs do not all have the same number of rows.
C9_NoWriteWithoutInputs == [][C9_Step]_vars

\* outlier detection ran on three present inputs of different row counts
\* and wrote nothing, after a clustering run that found an input missing
C9_Witness ==
    /\ stage_run.stage = "detect_outliers"
    /\ stage_run.how = "rows_mismatch"
    /\ stage_run.written = {}
    /\ \A file \in {PCA_10, CLUSTERS, PRUNED} : fs[file].exists
    /\ fs[PCA_10].rows # fs[PRUNED].rows

---------------------------------------------------------------------------
(* llm_taguchi_runner.py: the inputs and the run *)

MaxSamples == 2

DryRunValues == {"", "1", "TRUE", "Yes", "0", "no"}

\* rows of the sample CSV
SampleRows ==
    { [sample_id |-> PyStr(<<"s1">>), MouldCode |-> PyStr(<<"5001">>),
       timestamp |-> PyStr(<<"2020-01-01">>), CoolingTime |-> PyStr(<<"3">>)],
      [id |-> PyStr(<<"7">>), Ts |-> PyStr(<<"t2">>), CoolingTime |-> PyStr(<<"4">>)],
      [MouldCode |-> PyStr(<<"5002">>), CoolingTime |-> PyStr(<<"5">>)] }

\* the machine: nothing set, or the gemini key and endpoint set
RunnerEnvs ==
    { [env |-> [n \in EnvNames |-> PyNone], files |-> [f \in CredFiles |-> NoFile]],
      [env |-> [n \in EnvNames |->
                   IF n = "GEMINI_API_KEY" THEN PyStr(Key)
                   ELSE IF n = "GEMINI_ENDPOINT" THEN PyStr(Endpoint)
                   ELSE PyNone],
       files |-> [f \in CredFiles |-> NoFile]] }

\* what the endpoint answers during a run
RunnerWorlds ==
    { [sdk |-> NoSdk, net |-> o] :
        o \in { h \in HttpOutcomes :
                  \/ h = NoResponse("Timeout")
                  \/ h.kind = "response" /\ h.status_code = 200 /\ h.text \in {<<"a">>, <<"b">>}
                  \/ h.kind = "response" /\ h.status_code = 404 /\ h.text = <<"x">> } }

\* prompt_obj['prompt'] for sample s of trial t; the prompt id is
\* f"{trial_id}-{s['sample_id']}"
prompt_of(t, s) ==
    generate_prompt(s, t.A, t.B, t.C, t.D, <<t.trial_id, "-">> \o Format(s.sample_id),
                    "utcnow").prompt

\* the iteration for sample s wrote its row, tb being what the try block did
Recorded(s, prompt, tb) ==
    /\ ndjson' = Append(ndjson, row_of(taguchi.trial_id, s, prompt, tb.resp))
    /\ taguchi' = [taguchi EXCEPT
                      !.llm_client = tb.llm_client,
                      !.imports = tb.imports,
                      !.todo = Tail(@),
                      !.parsed_ok = IF Truthy(parsed_field(tb.resp)) THEN @ + 1 ELSE @]
    /\ effects' = effects \o tb.effects

\* one pass of "for s in samples"
WriteRow ==
    /\ taguchi.todo # <<>>
    /\ \E world \in RunnerWorlds :
          Recorded(Head(taguchi.todo),
                   prompt_of(taguchi, Head(taguchi.todo)),
                   try_block(taguchi, prompt_of(taguchi, Head(taguchi.todo)),
                             llm_env.env, llm_env.files, world))
    /\ UNCHANGED <<llm_env, llm_call, llm_out, dataVars, parseVars, outlierVars,
                   pipeVars, retroVars, clusteringVars, promptVars>>

\* taguchi_results_summary.json, after the last sample
WriteSummary ==
    /\ taguchi.todo = <<>>
    /\ ~taguchi.summary
    /\ taguchi' = [taguchi EXCEPT !.summary = TRUE]
    /\ UNCHANGED <<ndjson, llmVars, dataVars, parseVars, outlierVars, pipeVars, retroVars, clusteringVars, promptVars>>

InitRunner ==
    /\ \E dry_run \in DryRunValues, provider \in {"gemini", "mistral"},
          importable \in BOOLEAN, n \in 1..MaxSamples :
       \E rows \in [1..n -> SampleRows] :
          taguchi = [dry_run |-> dry_run, provider |-> provider,
                     importable |-> importable, llm_client |-> "None",
                     imports |-> 0, trial_id |-> "1",
                     A |-> 1, B |-> 1, C |-> 1, D |-> 1,
                     todo |-> [i \in 1..n |-> load_sample(rows[i])],
                     parsed_ok |-> 0, summary |-> FALSE]
    /\ ndjson = <<>>
    /\ llm_env \in RunnerEnvs
    /\ llm_call = Idle
    /\ llm_out = NoResult
    /\ effects = <<>>
    /\ DataIdle
    /\ ParseIdle
    /\ OutlierIdle
    /\ PipelineIdle
    /\ RetrofitIdle
    /\ ClusteringIdle
    /\ PromptIdle

NextRunner ==
    \/ WriteRow
    \/ WriteSummary

SpecRunner == InitRunner /\ [][NextRunner]_vars

---------------------------------------------------------------------------
(* C10 *)

\* the run is a dry run: TAGUCHI_DRY_RUN is 1, true or yes
C10_DryRun == dry_flag(taguchi.dry_run)

\* llm_client was never imported
C10_NeverImports ==
    /\ taguchi.llm_client = "None"
    /\ taguchi.imports = 0
    /\ \A i \in 1..Len(effects) : effects[i].op # "import"

\* C10: with TAGUCHI_DRY_RUN set to 1/true/yes the Taguchi runner never
\* imports llm_client, and the raw_response of every NDJSON row it writes is
\* the simulated dry-run response of call_llm (status 'dry_run'), not an
\* error record.
C10_DryRunRowsAreSimulated ==
    C10_DryRun =>
        /\ C10_NeverImports
        /\ \A i \in 1..Len(ndjson) :
              /\ "error" \notin DOMAIN ndjson[i].raw_response
              /\ "status" \in DOMAIN ndjson[i].raw_response
              /\ ndjson[i].raw_response = dry_run_response(ndjson[i].prompt, "")

---------------------------------------------------------------------------
(* C11 *)

\* call_llm returned a 'parsed' object for row r
C11_Extracted(r) == "parsed" \in DOMAIN r.raw_response

\* C11: for every NDJSON row written by the Taguchi runner, parse_ok is true
\* and the row's parsed field holds the extracted JSON object exactly when
\* call_llm returned a 'parsed' object; otherwise parsed is null and parse_ok
\* is false.
C11_ParsedIffExtracted ==
    \A i \in 1..Len(ndjson) :
        IF C11_Extracted(ndjson[i])
        THEN /\ ndjson[i].parse_ok
             /\ ndjson[i].parsed = ndjson[i].raw_response.parsed
        ELSE /\ ~ndjson[i].parse_ok
             /\ ndjson[i].parsed = PyNone

---------------------------------------------------------------------------
(* retrofit_ndjson_format.py: the files and the run of process_file *)

MaxLines == 2

Mould5001 == PyStr(<<"5001">>)
Stamp == PyStr(<<"2020-01-01">>)

\* a row of the old format: MouldCode and timestamp at top level, raw_row
OldRow ==
    PyDict([trial_id |-> PyInt(1), MouldCode |-> Mould5001, timestamp |-> Stamp,
            raw_row |-> PyDict([MouldCode |-> Mould5001, CoolingTime |-> PyInt(3)])])

\* a row as the runner writes it now
NewRow ==
    PyDict([trial_id |-> PyInt(1),
            internal_metadata |-> PyDict([MouldCode |-> Mould5001, timestamp |-> Stamp]),
            raw_row_redacted |-> PyDict([CoolingTime |-> PyInt(3)])])

\* a row that has internal_metadata and still the unredacted raw_row
MetaOnlyRow ==
    PyDict([trial_id |-> PyInt(1),
            internal_metadata |-> PyDict([MouldCode |-> Mould5001, timestamp |-> Stamp]),
            raw_row |-> PyDict([MouldCode |-> Mould5001, CoolingTime |-> PyInt(3)])])

\* a row whose internal_metadata and raw_row are null
NullMetaRow ==
    PyDict([trial_id |-> PyInt(1), internal_metadata |-> PyNone, raw_row |-> PyNone])

Lines ==
    { BlankLine, TextLine("oops", FALSE), TextLine("oops", TRUE),
      JsonLine(OldRow, TRUE, FALSE), JsonLine(NewRow, TRUE, FALSE),
      JsonLine(NewRow, FALSE, TRUE), JsonLine(MetaOnlyRow, TRUE, FALSE),
      JsonLine(NullMetaRow, TRUE, FALSE), JsonLine(PyList(<<PyInt(1)>>), TRUE, FALSE) }

\* the loop goes on with the rest of the lines
Continue(st, changed) == [pc |-> "lines", todo |-> Tail(st.todo), changed |-> changed]

\* the body of "for line in fin" for the stripped line, obj being
\* ensure_internal of its value when it is JSON
loop_body(line, obj, st, written) ==
    IF line.kind = "blank"
    THEN [retrofit |-> Continue(st, st.changed), patched_file |-> Patched(written)]
    ELSE IF line.kind = "text"
    THEN [retrofit |-> Continue(st, st.changed),
          patched_file |-> Patched(Append(written, line))]
    ELSE IF obj.t = "exception"
    THEN [retrofit |-> [st EXCEPT !.pc = "raised"], patched_file |-> Patched(written)]
    ELSE [retrofit |-> Continue(st, st.changed \/ obj # line.value),
          patched_file |-> Patched(Append(written, dumps_line(obj)))]

\* what the loop body leaves
Looped(r) ==
    /\ retrofit' = r.retrofit
    /\ patched_file' = r.patched_file

\* "with p.open('r') as fin, patched.open('w') as fout"
OpenFiles ==
    /\ retrofit.pc = "idle"
    /\ retrofit' = [pc |-> "lines", todo |-> run_file, changed |-> FALSE]
    /\ patched_file' = Patched(<<>>)
    /\ UNCHANGED <<run_file, dataVars, parseVars, outlierVars, llmVars, pipeVars, runnerVars,
                   clusteringVars, promptVars>>

\* one pass of "for line in fin"
ProcessLine ==
    /\ retrofit.pc = "lines"
    /\ retrofit.todo # <<>>
    /\ Looped(loop_body(strip_line(Head(retrofit.todo)),
                        IF Head(retrofit.todo).kind = "json"
                        THEN ensure_internal(Head(retrofit.todo).value) ELSE PyNone,
                        retrofit, patched_file.lines))
    /\ UNCHANGED <<run_file, dataVars, parseVars, outlierVars, llmVars, pipeVars, runnerVars,
                   clusteringVars, promptVars>>

\* the original after "if changed: patched.replace(p) else: patched.unlink()"
replace_if_changed(changed, original, written) ==
    IF changed THEN written ELSE original

Finish ==
    /\ retrofit.pc = "lines"
    /\ retrofit.todo = <<>>
    /\ run_file' = replace_if_changed(retrofit.changed, run_file, patched_file.lines)
    /\ patched_file' = NoPatched
    /\ retrofit' = [retrofit EXCEPT !.pc = "done"]
    /\ UNCHANGED <<dataVars, parseVars, outlierVars, llmVars, pipeVars, runnerVars,
                   clusteringVars, promptVars>>

InitRetrofit ==
    /\ \E n \in 0..MaxLines : run_file \in [1..n -> Lines]
    /\ patched_file = NoPatched
    /\ retrofit = NotStarted
    /\ DataIdle
    /\ ParseIdle
    /\ OutlierIdle
    /\ LLMIdle
    /\ PipelineIdle
    /\ RunnerIdle
    /\ ClusteringIdle
    /\ PromptIdle

NextRetrofit ==
    \/ OpenFiles
    \/ ProcessLine
    \/ Finish

SpecRetrofit == InitRetrofit /\ [][NextRetrofit]_vars

---------------------------------------------------------------------------
(* C12 *)

\* the line is a JSON object
C12_IsObject(line) == line.kind = "json" /\ line.value.t = "dict"

\* the object has both fields, and raw_row_redacted has neither key
C12_Retrofitted(d) ==
    /\ "internal_metadata" \in DOMAIN d
    /\ "raw_row_redacted" \in DOMAIN d
    /\ d.raw_row_redacted.t = "dict"
    /\ DOMAIN d.raw_row_redacted.v \cap {"MouldCode", "timestamp"} = {}

\* C12: after process_file has run on an NDJSON file, every line that parses
\* as a JSON object contains an internal_metadata field and a
\* raw_row_redacted field, and raw_row_redacted has no 'MouldCode' and no
\* 'timestamp' key.
C12_EveryObjectRetrofitted ==
    retrofit.pc = "done" =>
        \A i \in 1..Len(run_file) :
            C12_IsObject(run_file[i]) => C12_Retrofitted(run_file[i].value.v)

---------------------------------------------------------------------------
(* C13 *)

C13_NotBlank(line) == line.kind # "blank"
C13_NotJson(line) == line.kind = "text"

\* the step that ends process_file
C13_Ends == retrofit.pc = "lines" /\ retrofit'.pc = "done"

\* the original changes only by the replace at the end, when the .patched
\* file has a line for every non-blank line and some line changed
C13_NeverInPlace ==
    run_file' # run_file =>
        /\ C13_Ends
        /\ retrofit.todo = <<>>
        /\ retrofit.changed
        /\ patched_file = Patched(run_file')
        /\ Len(run_file') = Len(SelectSeq(run_file, C13_NotBlank))

\* no line changed: the .patched file is deleted, the original untouched
C13_UnchangedUntouched ==
    C13_Ends /\ ~retrofit.changed => run_file' = run_file /\ patched_file' = NoPatched

\* the number of non-blank lines is preserved
C13_CountPreserved ==
    C13_Ends => Len(SelectSeq(run_file', C13_NotBlank))
                  = Len(SelectSeq(run_file, C13_NotBlank))

\* the lines that are not valid JSON are the same lines, in order
C13_Verbatim ==
    C13_Ends => SelectSeq(run_file', C13_NotJson) = SelectSeq(run_file, C13_NotJson)

\* the lines that are not valid JSON are the same lines, in order, or, in a
\* replaced file, these lines without their leading and trailing whitespace
C13_Stripped ==
    C13_Ends =>
        LET before == SelectSeq(run_file, C13_NotJson)
            after == SelectSeq(run_file', C13_NotJson)
        IN  /\ Len(after) = Len(before)
            /\ \A i \in 1..Len(before) :
                  after[i] = IF retrofit.changed THEN strip_line(before[i]) ELSE before[i]

\* C13 as stated: process_file never modifies the original in place; it
\* first writes the complete .patched file and replaces the original with it
\* only if a line changed, else deletes the .patched file and leaves the
\* original untouched; lines that are not valid JSON are carried over
\* verbatim and the number of non-blank lines is preserved.
C13_CarriedVerbatim ==
    [][C13_NeverInPlace /\ C13_UnchangedUntouched /\ C13_CountPreserved
       /\ C13_Verbatim]_vars

\* what holds of process_file: the same, except that a line that is not
\* valid JSON is carried over into a replaced file without its leading and
\* trailing whitespace
C13_CarriedStripped ==
    [][C13_NeverInPlace /\ C13_UnchangedUntouched /\ C13_CountPreserved
       /\ C13_Stripped]_vars

---------------------------------------------------------------------------
(* best_k_by_silhouette: the results it is called with *)

MaxKs == 3

Silhouettes == {NaN, Num(-10), Num(-5), Num(5)}

\* results for ks = 2, 3, ...: every k with a silhouette or without the key
IsResults(rs) ==
    \E n \in 0..MaxKs :
        rs \in [1..n -> UNION { {Info(k, s) : s \in Silhouettes} \cup {InfoNoSilhouette(k)}
                               : k \in 2..(MaxKs + 1) }]
           /\ \A i \in 1..n : rs[i].k = i + 1

CallBestK ==
    /\ ~best_k.called
    /\ best_k' = [called |-> TRUE, value |-> best_k_by_silhouette(results)]
    /\ UNCHANGED <<results, dataVars, parseVars, outlierVars, llmVars, pipeVars,
                   runnerVars, retroVars, promptVars>>

InitBestK ==
    /\ IsResults(results)
    /\ best_k = [called |-> FALSE]
    /\ DataIdle
    /\ ParseIdle
    /\ OutlierIdle
    /\ LLMIdle
    /\ PipelineIdle
    /\ RunnerIdle
    /\ RetrofitIdle
    /\ PromptIdle

SpecBestK == InitBestK /\ [][CallBestK]_vars

---------------------------------------------------------------------------
(* C14 *)

\* the positions of results whose silhouette is a number
C14_Valid == {i \in 1..Len(results) :
                "silhouette" \in DOMAIN results[i].info
                /\ results[i].info.silhouette.t = "num"}

\* position i has the maximum silhouette, and is the first that has it
C14_FirstMax(i) ==
    /\ \A j \in C14_Valid : results[j].info.silhouette.n <= results[i].info.silhouette.n
    /\ \A j \in C14_Valid : j < i =>
          results[j].info.silhouette.n < results[i].info.silhouette.n

\* C14: best_k_by_silhouette returns the k whose silhouette is the maximum
\* over all entries with a non-NaN silhouette (the first such k in iteration
\* order on ties), and returns None only when every entry's silhouette is NaN
\* or missing.
C14_BestIsFirstMax ==
    best_k.called =>
        IF C14_Valid = {} THEN best_k.value = PyNone
        ELSE \E i \in C14_Valid : C14_FirstMax(i) /\ best_k.value = PyInt(results[i].k)

---------------------------------------------------------------------------
(* clean_mould_5001.py: the subsets main reads *)

MaxCleanRows == 2

ColumnOrders ==
    { <<"DateOfLine", "ActualTimeOfLine", "CoolingTime">>,
      <<"CoolingTime", "DateOfLine", "ActualTimeOfLine">>,
      <<"timestamp", "DateOfLine", "ActualTimeOfLine">>,
      <<"Id", "DateOfLine", "CoolingTime">>,
      <<"Id", "ActualTimeOfLine">>,
      <<"timestamp", "CoolingTime">> }

\* the cells a column can hold; 37800 s is 10:30:00
CellsOf(c) ==
    CASE c = "timestamp" -> {TextCell, StampCell(DaySeconds + 3600)}
      [] c = "DateOfLine" -> {DateCell(1), DateCell(2), TextCell}
      [] c = "ActualTimeOfLine" -> {TimeCell(0), TimeCell(37800)}
      [] c = "CoolingTime" -> {NumberCell(3)}
      [] OTHER -> {NumberCell(1)}

CallCleanFrame ==
    /\ call = Idle
    /\ call' = [fn |-> "main"]
    /\ out' = [raised |-> "none", frame |-> clean_frame(df)]
    /\ UNCHANGED <<df, parseVars, outlierVars, llmVars, pipeVars, runnerVars, retroVars,
                   clusteringVars, promptVars>>

InitClean ==
    /\ \E columns \in ColumnOrders, n \in 1..MaxCleanRows :
          df \in [columns : {columns},
                  data : [1..n -> { row \in [{columns[j] : j \in 1..Len(columns)} ->
                                               UNION {CellsOf(columns[j]) : j \in 1..Len(columns)}] :
                                      \A j \in 1..Len(columns) : row[columns[j]] \in CellsOf(columns[j]) }]]
    /\ call = Idle
    /\ out = NotCalled
    /\ ParseIdle
    /\ OutlierIdle
    /\ LLMIdle
    /\ PipelineIdle
    /\ RunnerIdle
    /\ RetrofitIdle
    /\ ClusteringIdle
    /\ PromptIdle

SpecClean == InitClean /\ [][CallCleanFrame]_vars

---------------------------------------------------------------------------
(* C15 *)

\* the subset has no parseable 'timestamp' column but has DateOfLine and
\* ActualTimeOfLine, and the two combine to a timestamp in some row
C15_Case ==
    /\ call = [fn |-> "main"]
    /\ {"DateOfLine", "ActualTimeOfLine"} \subseteq ColumnSet(df)
    /\ "timestamp" \in ColumnSet(df) => ~any_notna(datetime_series(df, "timestamp"))
    /\ any_notna(combined_series(df))

\* row i of the cleaned frame has the features of the timestamp t
C15_FeaturesOf(i, t, least) ==
    \A j \in 1..Len(TsFeatures) :
        /\ TsFeatures[j] \in DOMAIN out.frame.data[i]
        /\ out.frame.data[i][TsFeatures[j]] = ts_feature(TsFeatures[j], t, least)

\* C15: in clean_mould_5001, when the subset has no parseable 'timestamp'
\* column but has both DateOfLine and ActualTimeOfLine, the timestamp used to
\* derive ts_hour, ts_minute, ts_dayofweek and ts_elapsed_seconds is the
\* combination of DateOfLine and ActualTimeOfLine, and both source columns
\* are dropped after extraction.
C15_CombinedTimestamp ==
    C15_Case =>
        /\ \A i \in 1..Len(df.data) :
              C15_FeaturesOf(i, combined_series(df)[i], ts_min(combined_series(df)))
        /\ ColumnSet(out.frame) \cap {"DateOfLine", "ActualTimeOfLine"} = {}

---------------------------------------------------------------------------
(* _try_call: the wrapped call and what it does at each attempt *)

AttemptOutcomes == {"ok", "APIError", "RateLimitError"}

\* what _try_call gave, without the calls it made
try_outcome(r) == [ok |-> r.ok, attempt |-> r.attempt, type |-> r.type]

\* _try_call ended as r
Tried(c, r) == Called(c, [out |-> try_outcome(r), effects |-> r.effects])

\* "resp = _try_call(fn, model=..., ...)" on its own
TryCall ==
    /\ llm_call = Idle
    /\ \E fn \in {ChatCompletions, LegacyChat, LegacyCompletion},
          outcomes \in [1..(Attempts + 1) -> AttemptOutcomes] :
          Tried([fn |-> "_try_call", target |-> fn, outcomes |-> outcomes],
                _try_call(fn, "gpt-4o", outcomes))
    /\ UNCHANGED <<llm_env, dataVars, parseVars, outlierVars, pipeVars, runnerVars,
                   retroVars, clusteringVars, promptVars>>

InitTryCall ==
    /\ LLMIdle
    /\ DataIdle
    /\ ParseIdle
    /\ OutlierIdle
    /\ PipelineIdle
    /\ RunnerIdle
    /\ RetrofitIdle
    /\ ClusteringIdle
    /\ PromptIdle

SpecTryCall == InitTryCall /\ [][TryCall]_vars

---------------------------------------------------------------------------
(* C16 *)

\* the attempts at which the wrapped call succeeds, among the first three
C16_Successes == {i \in 1..3 : llm_call.outcomes[i] = "ok"}

\* the first of them
C16_First == CHOOSE i \in C16_Successes : \A j \in C16_Successes : i <= j

\* the number of failed attempts made
C16_Failures == IF C16_Successes = {} THEN 3 ELSE C16_First - 1

\* the wait after the j-th failure: 1 s, then 2 s, then 4 s
C16_Delay(j) == CASE j = 1 -> 1 [] j = 2 -> 2 [] OTHER -> 4

\* the calls are the wrapped call, and after each failed one comes the wait
C16_CallsAndWaits ==
    /\ Len(effects) = 2 * C16_Failures + (IF C16_Successes = {} THEN 0 ELSE 1)
    /\ \A p \in 1..Len(effects) :
          IF p % 2 = 1
          THEN effects[p].op = "api" /\ effects[p].fn = llm_call.target
          ELSE effects[p] = Sleep(C16_Delay(p \div 2))

\* C16: _try_call invokes the wrapped call at most 3 times, returns the
\* result of the first successful attempt without further attempts, waits
\* 1 s, then 2 s, then 4 s (doubling after each failure), and after the
\* third failure raises the exception of the last attempt.
C16_RetryThreeTimes ==
    llm_call.fn = "_try_call" =>
        /\ Cardinality({p \in 1..Len(effects) : effects[p].op = "api"}) <= 3
        /\ C16_CallsAndWaits
        /\ IF C16_Successes # {}
           THEN llm_out = [ok |-> TRUE, attempt |-> C16_First, type |-> "ok"]
           ELSE llm_out = [ok |-> FALSE, attempt |-> 3, type |-> llm_call.outcomes[3]]

\* the wrapped call failed three times with different exceptions, and would
\* have succeeded at a fourth attempt
C16_Witness ==
    /\ llm_call.fn = "_try_call"
    /\ llm_call.outcomes = <<"APIError", "APIError", "RateLimitError", "ok">>
    /\ llm_out = [ok |-> FALSE, attempt |-> 3, type |-> "RateLimitError"]
    /\ effects[6] = Sleep(4)

---------------------------------------------------------------------------
(* C18 *)

\* normalize_header promoted the first row of df to the header
C18_Promoted ==
    /\ call = [fn |-> "normalize_header"]
    /\ Len(df.data) > 0
    /\ use_header(first_row(df))

\* C18: when normalize_header promotes the first row to the header, the
\* resulting column names are pairwise distinct for every possible first row
\* (duplicates get a numeric suffix, empty cells become col_<i>).
C18_NamesPairwiseDistinct ==
    C18_Promoted =>
        \A i, j \in 1..Len(out.frame.columns) :
            i # j => out.frame.columns[i] # out.frame.columns[j]

---------------------------------------------------------------------------
(* summarize_df: the arguments it is called with *)

MaxSummaryCols == 2
MaxSummaryRows == 6

SummaryLabels == {IdCol, DateCol, StrCell(SId \o <<"_", "1">>)}

\* the cell of column j in a row of kind p: a row of integers, a row with a
\* missing first value, a row with a string first and None after it
summary_cell(p, j) ==
    CASE p = 1 -> NumCell(1)
      [] p = 2 -> IF j = 1 THEN NaNCell ELSE NumCell(2)
      [] OTHER -> IF j = 1 THEN StrCell(<<"1", "0">>) ELSE NoneCell

CallSummarize ==
    /\ call = Idle
    /\ call' = [fn |-> "summarize_df"]
    /\ out' = summarize_df(df)
    /\ UNCHANGED <<df, parseVars, outlierVars, llmVars, pipeVars, runnerVars, retroVars,
                   clusteringVars, promptVars>>

InitSummarize ==
    /\ \/ df = NoShape
       \/ \E k \in 0..MaxSummaryCols, n \in 0..MaxSummaryRows :
          \E labels \in [1..k -> SummaryLabels], kinds \in [1..n -> 1..3] :
             df = Frame(labels, Range0(n),
                        [i \in 1..n |-> [j \in 1..k |-> summary_cell(kinds[i], j)]])
    /\ call = Idle
    /\ out = NotCalled
    /\ ParseIdle
    /\ OutlierIdle
    /\ LLMIdle
    /\ PipelineIdle
    /\ RunnerIdle
    /\ RetrofitIdle
    /\ ClusteringIdle
    /\ PromptIdle

SpecSummarize == InitSummarize /\ [][CallSummarize]_vars

---------------------------------------------------------------------------
(* C17 *)

\* the summary of the frame df: shape, one {name, dtype} per column in
\* order, one null count per column, min(5, num_rows) sample records
C17_Summary(s) ==
    /\ s.num_rows = Len(df.data)
    /\ s.num_cols = Len(df.columns)
    /\ Len(s.columns) = Len(df.columns)
    /\ \A j \in 1..Len(df.columns) :
          /\ s.columns[j].name = df.columns[j]
          /\ s.columns[j].dtype \in {"int64", "float64", "object"}
          /\ df.columns[j] \in DOMAIN s.null_counts
          /\ s.null_counts[df.columns[j]] = null_count(df, j)
    /\ Cardinality(DOMAIN s.null_counts) = Len(df.columns)
    /\ Len(s.sample_head) = (IF Len(df.data) < 5 THEN Len(df.data) ELSE 5)

\* C17: summarize_df returns a dict whose num_rows and num_cols equal the
\* DataFrame's shape, whose columns list has one {name, dtype} entry per
\* column in order, whose null_counts has one integer entry per column equal
\* to that column's number of missing cells, and whose sample_head has
\* min(5, num_rows) records; an argument without a shape attribute raises
\* TypeError.
C17_SummaryOfFrame ==
    call = [fn |-> "summarize_df"] =>
        IF has_shape(df)
        THEN out.raised = "none" /\ C17_Summary(out.summary)
        ELSE out.raised = "TypeError"

---------------------------------------------------------------------------
(* C19 *)

\* the text of the first part of the first candidate, when it is a str
C19_HasText == parsed.raised # "not_called" /\ navigate(raw).kind = "text"
                  /\ navigate(raw).text.t = "str"
C19_Text == navigate(raw).text.v

RECURSIVE C19_Fences(_, _)
\* the positions of the fences of s from i on, left to right
C19_Fences(s, i) ==
    IF i > Len(s) THEN <<>>
    ELSE IF StartsWith(s, i, Fence) THEN <<i>> \o C19_Fences(s, i + 3)
    ELSE C19_Fences(s, i + 1)

\* what stands between the k-th pair of fences, without a leading "json"
C19_Block(s, k) ==
    LET f == C19_Fences(s, 1)
        body == SubSeq(s, f[2 * k - 1] + 3, f[2 * k] - 1)
    IN  IF StartsWith(body, 1, JsonWord) THEN SubSeq(body, 5, Len(body)) ELSE body

\* the fenced blocks that wrap a JSON object
C19_FencedObjects(s) ==
    {k \in 1..(Len(C19_Fences(s, 1)) \div 2) :
        json_loads(C19_Block(s, k)).ok /\ json_loads(C19_Block(s, k)).val.t = "dict"}

\* C19: JSON extraction tries a fenced block first: whenever the text
\* contains a fenced block (with or without "json") wrapping a {...} object,
\* that fenced object is the one parsed, even if an unfenced '{' occurs
\* earlier in the text.  Checked as: the value returned is the object of the
\* first fenced block that wraps a JSON object.
C19_FencedObjectParsed ==
    C19_HasText /\ C19_FencedObjects(C19_Text) # {} =>
        LET k == CHOOSE a \in C19_FencedObjects(C19_Text) :
                    \A b \in C19_FencedObjects(C19_Text) : a <= b
        IN  parsed = ParseResult("none", json_loads(C19_Block(C19_Text, k)).val)

---------------------------------------------------------------------------
(* C20 *)

\* the text has no fence and has a '{'
C20_Unfenced(s) == C19_Fences(s, 1) = <<>> /\ \E i \in 1..Len(s) : s[i] = "{"

C20_FirstBrace(s) == CHOOSE i \in 1..Len(s) : s[i] = "{" /\ \A j \in 1..(i - 1) : s[j] # "{"

\* C20: for unfenced model text, whenever the first '{' in the text opens a
\* valid JSON object, parse_gemini_response returns exactly that object,
\* whatever the object's string values contain and whatever text follows it.
C20_FirstObjectReturned ==
    C19_HasText /\ C20_Unfenced(C19_Text) =>
        LET v == JValue(C19_Text, C20_FirstBrace(C19_Text))
        IN  v.ok /\ v.val.t = "dict" => parsed = ParseResult("none", v.val)

---------------------------------------------------------------------------
(* C21 *)

\* the row this step appended to the NDJSON file
C21_Row == ndjson'[Len(ndjson')]

\* the sample the step wrote the row for
C21_Sample == Head(taguchi.todo)

\* raw_row_redacted is the CSV row without the keys MouldCode and timestamp
C21_RowRedacted(s, row) ==
    /\ DOMAIN row.raw_row_redacted = DOMAIN s.raw_row.v \ {"MouldCode", "timestamp"}
    /\ \A k \in DOMAIN row.raw_row_redacted : row.raw_row_redacted[k] = s.raw_row.v[k]

\* the sample's MouldCode and timestamp are under internal_metadata and
\* nowhere in raw_row_redacted
C21_OnlyInMetadata(s, row) ==
    /\ row.internal_metadata = [MouldCode |-> s.MouldCode, timestamp |-> s.timestamp]
    /\ \A k \in DOMAIN row.raw_row_redacted :
          row.raw_row_redacted[k] \notin {s.MouldCode, s.timestamp}

\* every written row has the CSV row without the two keys (holds)
C21_KeysRedacted ==
    [][ndjson' # ndjson => C21_RowRedacted(C21_Sample, C21_Row)]_vars

\* C21: in every NDJSON row written by the Taguchi runner, raw_row_redacted
\* contains every key/value of the sampled CSV row except 'MouldCode' and
\* 'timestamp', which never appear in it, and the sample's MouldCode and
\* timestamp are stored only under internal_metadata.
C21_MetadataOnlyInternal ==
    [][ndjson' # ndjson =>
          /\ C21_RowRedacted(C21_Sample, C21_Row)
          /\ C21_OnlyInMetadata(C21_Sample, C21_Row)]_vars

---------------------------------------------------------------------------
(* generate_prompt: a caller generating the prompts of a few samples       *)

MaxPrompts == 2

\* r with key k set to v
With(r, k, v) == [x \in DOMAIN r \cup {k} |-> IF x = k THEN v ELSE r[x]]

BaseRow ==
    [sample_id |-> PyStr(<<"s1">>), MouldCode |-> PyStr(<<"5001">>),
     timestamp |-> PyStr(<<"2020-01-01">>), CoolingTime |-> PyStr(<<"3">>)]

\* rows of the sample CSV: the rows of the runner's model, the base row
\* with another mould and time, with one more column, with a setpoint
\* column, with another measurement, and a short row (csv.DictReader
\* leaves None in the columns a short row does not reach)
PromptRows ==
    SampleRows \cup
    { With(With(BaseRow, "MouldCode", PyStr(<<"5002">>)), "timestamp", PyStr(<<"2021-06-30">>)),
      With(BaseRow, "Operator", PyStr(<<"op1">>)),
      With(BaseRow, "mold_temperature", PyStr(<<"60">>)),
      With(BaseRow, "CoolingTime", PyStr(<<"4">>)),
      With(BaseRow, "OilTemperature", PyNone) }

\* the sample of the module's preview: no measurements and no raw_row
PreviewSample ==
    [sample_id |-> PyStr(<<"row_1">>), MouldCode |-> PyInt(5001),
     timestamp |-> PyStr(<<"2025-10-27T12:00:00Z">>),
     setpoints |-> PyStr(<<"mold_temp=60C,inj_pressure=120bar,cycle_time=8s">>),
     timeseries_summary |-> PyStr(<<"[...sampled 30 readings...]">>)]

\* samples handed to generate_prompt: those load_samples builds, the
\* preview's, one with empty measurements and a raw_row, one whose
\* measurements are not a dict
PromptSamples ==
    { load_sample(r) : r \in PromptRows } \cup
    { PreviewSample,
      With(PreviewSample, "MouldCode", PyInt(5002)),
      [sample_id |-> PyStr(<<"s1">>), measurements |-> PyDict(<<>>),
       raw_row |-> PyDict([CoolingTime |-> PyStr(<<"3">>)])],
      [sample_id |-> PyStr(<<"s1">>), measurements |-> PyStr(<<"n/a">>)] }

\* factor levels as int(t.get('A')) gives them; 4 is outside the L9 levels
Levels == { <<1, 1, 1, 1>>, <<4, 2, 3, 2>>, <<3, 3, 2, 3>>, <<2, 4, 1, 1>> }

\* the next call: its prompt id and the clock's reading differ from call
\* to call
GeneratePrompt ==
    /\ pg.todo # <<>>
    /\ prompt_objs' =
          Append(prompt_objs,
                 [sample |-> Head(pg.todo),
                  obj |-> generate_prompt(Head(pg.todo), pg.A, pg.B, pg.C, pg.D,
                                          <<"L9-T">> \o Digits(Len(prompt_objs) + 1),
                                          Len(prompt_objs) + 1)])
    /\ pg' = [pg EXCEPT !.todo = Tail(@)]
    /\ UNCHANGED <<dataVars, parseVars, outlierVars, llmVars, pipeVars, runnerVars,
                   retroVars, clusteringVars>>

InitPrompt ==
    /\ \E l \in Levels, n \in 1..MaxPrompts :
       \E todo \in [1..n -> PromptSamples] :
          pg = [A |-> l[1], B |-> l[2], C |-> l[3], D |-> l[4], todo |-> todo]
    /\ prompt_objs = <<>>
    /\ DataIdle
    /\ ParseIdle
    /\ OutlierIdle
    /\ LLMIdle
    /\ PipelineIdle
    /\ RunnerIdle
    /\ RetrofitIdle
    /\ ClusteringIdle

SpecPrompt == InitPrompt /\ [][GeneratePrompt]_vars

---------------------------------------------------------------------------
(* C22 *)

\* what the prompt may depend on: sample_id, setpoints, timeseries_summary
\* and the 15 measurement fields (of measurements, or of raw_row when
\* measurements is missing or empty)
C22_Listed(s) ==
    [sample_id |-> Get(s, "sample_id", PyNone),
     setpoints |-> Get(s, "setpoints", PyNone),
     timeseries_summary |-> Get(s, "timeseries_summary", PyNone),
     measurements |->
        IF measurements_of(s).t = "dict"
        THEN [i \in DOMAIN PARAM_FIELDS |->
                 Get(measurements_of(s).v, PARAM_FIELDS[i], PyStr(<<>>))]
        ELSE <<>>]

C22_Returned(i) == prompt_objs[i].obj.raised = "none"

\* C22: the prompt text produced by generate_prompt is a deterministic
\* function of the factor levels A-D and of the sample's sample_id,
\* setpoints, timeseries_summary and the 15 listed measurement fields only:
\* two samples that differ only in MouldCode, timestamp or any other field
\* yield identical prompt text.
C22_PromptOfListedFieldsOnly ==
    \A i, j \in DOMAIN prompt_objs :
        /\ C22_Returned(i)
        /\ C22_Returned(j)
        /\ C22_Listed(prompt_objs[i].sample) = C22_Listed(prompt_objs[j].sample)
        => prompt_objs[i].obj.prompt = prompt_objs[j].obj.prompt

\* two prompts were generated, at different times and under different
\* prompt ids, for samples that differ in MouldCode, timestamp and raw_row
\* and agree on the listed fields
C22_Witness ==
    \E i, j \in DOMAIN prompt_objs :
        /\ C22_Returned(i)
        /\ C22_Returned(j)
        /\ {"MouldCode", "timestamp", "raw_row"} \subseteq DOMAIN prompt_objs[i].sample
        /\ {"MouldCode", "timestamp", "raw_row"} \subseteq DOMAIN prompt_objs[j].sample
        /\ prompt_objs[i].sample.MouldCode # prompt_objs[j].sample.MouldCode
        /\ prompt_objs[i].sample.timestamp # prompt_objs[j].sample.timestamp
        /\ prompt_objs[i].sample.raw_row # prompt_objs[j].sample.raw_row
        /\ prompt_objs[i].obj.metadata # prompt_objs[j].obj.metadata
        /\ C22_Listed(prompt_objs[i].sample) = C22_Listed(prompt_objs[j].sample)
        /\ prompt_objs[i].obj.prompt = prompt_objs[j].obj.prompt

---------------------------------------------------------------------------
(* C23 *)

\* the position of the first atom a in text s
C23_Pos(s, a) == CHOOSE p \in 1..Len(s) : s[p] = a /\ \A q \in 1..(p - 1) : s[q] # a

\* the part of the prompt between the line "Measurements:" and the schema
C23_Section(prompt) ==
    SubSeq(prompt, C23_Pos(prompt, "Measurements:") + 2,
           C23_Pos(prompt, schema_lines[1]) - 1)

\* the value of field k is missing: no such key, or None
C23_Missing(m, k) == k \notin DOMAIN m \/ m[k] = PyNone

\* the line of field k, v being the text of its value
C23_Line(k, v) == <<k, ": ">> \o v \o <<"\n">>

\* the measurements handed to call i are a dict
C23_HasDict(i) ==
    C22_Returned(i) /\ measurements_of(prompt_objs[i].sample).t = "dict"

\* one line per field of PARAM_FIELDS, in that order, with the str() of the
\* value or nothing for an absent key (holds)
C23_OneLinePerField ==
    \A i \in DOMAIN prompt_objs :
        C23_HasDict(i) =>
            LET m == measurements_of(prompt_objs[i].sample).v
            IN  C23_Section(prompt_objs[i].obj.prompt) =
                    Concat([n \in DOMAIN PARAM_FIELDS |->
                               C23_Line(PARAM_FIELDS[n],
                                        IF PARAM_FIELDS[n] \in DOMAIN m
                                        THEN Format(m[PARAM_FIELDS[n]]) ELSE <<>>)])
                    \o <<"\n">>

\* C23: generate_prompt emits exactly one 'name: value' line for each of the
\* 15 PARAM_FIELDS, in the fixed PARAM_FIELDS order, and a measurement whose
\* value is missing is rendered as an empty string, never as the literal
\* None.
C23_MissingRenderedEmpty ==
    \A i \in DOMAIN prompt_objs :
        C23_HasDict(i) =>
            LET m == measurements_of(prompt_objs[i].sample).v
            IN  C23_Section(prompt_objs[i].obj.prompt) =
                    Concat([n \in DOMAIN PARAM_FIELDS |->
                               C23_Line(PARAM_FIELDS[n],
                                        IF C23_Missing(m, PARAM_FIELDS[n])
                                        THEN <<>> ELSE Format(m[PARAM_FIELDS[n]]))])
                    \o <<"\n">>

---------------------------------------------------------------------------
(* C24 *)

\* call_llm was called with dry_run False
C24_Live == llm_call # Idle /\ ~llm_call.dry_run

C24_Supported == {"openai", "chatgpt", "gemini", "deepseek"}

\* the credential file of the provider: <PROVIDER>_CRED_FILE or the default
C24_CredFile(p) ==
    IF llm_env.env[CredVar(p)] = PyNone THEN DefaultCredFile(p)
    ELSE llm_env.env[CredVar(p)].v

\* the environment variable of the provider's key is set and not empty
C24_KeyInEnv(p) ==
    llm_env.env[KeyVar(p)] # PyNone /\ llm_env.env[KeyVar(p)].v # <<>>

\* the credential file exists and holds more than white space
C24_KeyInFile(p) ==
    /\ C24_CredFile(p) \in DOMAIN llm_env.files
    /\ llm_env.files[C24_CredFile(p)].exists
    /\ \E i \in DOMAIN llm_env.files[C24_CredFile(p)].text :
          llm_env.files[C24_CredFile(p)].text[i] # " "

\* the key, or for gemini and deepseek the endpoint, is missing
C24_Missing(p) ==
    \/ ~C24_KeyInEnv(p) /\ ~C24_KeyInFile(p)
    \/ /\ p \in {"gemini", "deepseek"}
       /\ \/ llm_env.env[EndpointVar(p)] = PyNone
          \/ llm_env.env[EndpointVar(p)].v = <<>>

\* no request was sent: no HTTP post and no call of the openai client
C24_NoRequest == \A i \in DOMAIN effects : effects[i].op \notin {"post", "api"}

\* every read of a file is a read of the provider's credential file, comes
\* after the look at the key variable, and happens only when that variable
\* is unset or empty; a request comes after the look at the key variable
C24_EnvFirst(p) ==
    \A i \in DOMAIN effects :
        /\ effects[i].op = "open" =>
              /\ effects[i].path = C24_CredFile(p)
              /\ ~C24_KeyInEnv(p)
              /\ \E j \in 1..(i - 1) : effects[j] = Getenv(KeyVar(p))
        /\ effects[i].op \in {"post", "api"} =>
              \E j \in 1..(i - 1) : effects[j] = Getenv(KeyVar(p))

\* C24: when dry_run is False, call_llm resolves the provider API key from
\* the environment variable first and reads the credential file only if the
\* variable is unset or empty; if the key (or, for gemini/deepseek, the
\* endpoint) is still missing it raises RuntimeError before any HTTP request
\* is sent, and a provider outside openai/chatgpt/gemini/deepseek raises
\* RuntimeError without any request.
C24_KeyResolution ==
    C24_Live =>
        IF llm_call.provider \in C24_Supported
        THEN /\ C24_EnvFirst(llm_call.provider)
             /\ C24_Missing(llm_call.provider) =>
                   llm_out.raised = "RuntimeError" /\ C24_NoRequest
        ELSE llm_out.raised = "RuntimeError" /\ C24_NoRequest

\* a gemini call on a machine whose GEMINI_API_KEY is empty: the credential
\* file was read after the variable and holds a key, the endpoint is not
\* set, and the call raised RuntimeError without a request
C24_Witness ==
    /\ C24_Live
    /\ llm_call.provider = "gemini"
    /\ llm_env.env["GEMINI_API_KEY"] = PyStr(<<>>)
    /\ C24_KeyInFile("gemini")
    /\ \E i \in DOMAIN effects : effects[i] = Open(C24_CredFile("gemini"))
    /\ llm_env.env["GEMINI_ENDPOINT"] = PyNone
    /\ llm_out.raised = "RuntimeError"
    /\ C24_NoRequest

---------------------------------------------------------------------------
(* The stage scripts run in any order on a fresh outputs/ directory        *)

MaxChainRuns == 8

\* one more invocation of the script named stage, which ended as r
Invoke(stage, r) == stage_run.n < MaxChainRuns /\ Invoked(stage, r)

InvokeClean == Invoke("clean", clean_main(fs))
InvokePrepare == Invoke("prepare", prepare_main(fs))
InvokePrune == Invoke("prune", prune_main(fs))
InvokeFeatures ==
    \E data \in {"no_duration", "pca_fails", "ok"} :
        Invoke("features", features_main(fs, data))
InvokeClustering ==
    \E data \in ClusteringData : Invoke("clustering", clustering_main(fs, data))
InvokeDetectOutliers ==
    \E total_outliers \in 0..MaxCsvRows :
        /\ exists(fs, PRUNED) => total_outliers <= len_csv(fs, PRUNED)
        /\ Invoke("detect_outliers", detect_main(fs, total_outliers))
InvokeClusteringNoOutliers ==
    \E data \in ClusteringData :
        Invoke("clustering_no_outliers", clustering_no_outliers_main(fs, data))

\* outputs/ holds the subset CSV and nothing else
InitChain ==
    /\ \E n \in 1..MaxCsvRows :
          fs = [file \in OutputFiles |-> IF file = RAW THEN Present(n) ELSE Absent]
    /\ stage_run = NotRun
    /\ DataIdle
    /\ ParseIdle
    /\ OutlierIdle
    /\ LLMIdle
    /\ RunnerIdle
    /\ RetrofitIdle
    /\ ClusteringIdle
    /\ PromptIdle

NextChain ==
    \/ InvokeClean
    \/ InvokePrepare
    \/ InvokePrune
    \/ InvokeFeatures
    \/ InvokeClustering
    \/ InvokeDetectOutliers
    \/ InvokeClusteringNoOutliers

SpecChain == InitChain /\ [][NextChain]_vars

---------------------------------------------------------------------------
(* C25 *)

\* the output CSVs of the stages, in the order of the chain
C25_Chain ==
    << {CLEANED}, {MODEL_READY}, {PRUNED}, {SCALED, PCA_10}, {CLUSTERS},
       {OUTLIERS, NO_OUTLIERS_PRUNED, NO_OUTLIERS_PCA_10}, {CLUSTERS_NO_OUTLIERS} >>

\* C25: under any order and any number of invocations of the batch stage
\* scripts (clean, prepare, prune, features, clustering, outlier detection,
\* no-outlier clustering), starting from only the subset CSV and with no
\* file deleted, the output CSV of a stage exists only if the output CSV of
\* every stage before it in the chain exists.
C25_ChainOrdered ==
    \A i \in DOMAIN C25_Chain :
        (\E file \in C25_Chain[i] : fs[file].exists) =>
            \A j \in 1..(i - 1) : \A file \in C25_Chain[j] : fs[file].exists

\* the last stage's CSV exists after as many invocations as the bound
\* allows, one of which, at least, found an input missing or failed
C25_Witness ==
    /\ fs[CLUSTERS_NO_OUTLIERS].exists
    /\ stage_run.n = MaxChainRuns
    /\ stage_run.how # "done"

=============================================================================
